---- MODULE Spec2Model ----
(***************************************************************************)
(* ZeroToken (ai_build): the diff engine (sanitizer, algorithmic patch     *)
(* applier) and the step-approval state machine of the GUI server.         *)
(*                                                                         *)
(* Text is modelled character by character: a text is a sequence of        *)
(* one-character strings, so that line splitting, strip(), slicing and the *)
(* concatenation done by writelines() are computed as Python computes      *)
(* them.                                                                   *)
(***************************************************************************)
EXTENDS Integers, Sequences, FiniteSets, TLC

VARIABLES
    \* ---- working tree and patch applier (git_ops.py) ----
    fs,          \* path -> file content (text); a path outside DOMAIN fs does not exist
    fsPre,       \* the working tree as it was when the last apply_patch call started
    patchSecs,   \* the patch as its author meant it: a sequence of file edits
    patchText,   \* content of the patch file handed to apply_patch, or NoText
    result,      \* outcome of the last apply_patch call, or NoResult
    \* ---- sanitizer (local_patcher.py) ----
    sanIn,       \* text handed to _sanitize_diff
    sanPieces,   \* number of pieces sanIn was put together from
    sanOut,      \* _sanitize_diff(sanIn), or NoText before the call
    sanOut2,     \* _sanitize_diff(sanOut), or NoText before the call
    extOut,      \* outcome of _extract_diff on the generator's text, or NoResult
    \* ---- GUI server (server.py): _state and the .ai-build directory ----
    project_root,    \* _state["project_root"]: "" until a folder is chosen
    goal,            \* _state["goal"]
    plan,            \* .ai-build/plan.json: [exists, steps], steps a sequence of [id, status]
    diffs,           \* _state["diffs"]: step id -> draft diff (NoDiff = no entry)
    refined_diffs,   \* _state["refined_diffs"]: step id -> refined diff
    reviews,         \* _state["reviews"]: step id -> review (NoReview = no entry)
    final_prompt,    \* _state["final_prompt"]
    active_step_id,  \* _state["active_step_id"] (NoStep = None)
    flash,           \* _state["info"] and _state["error"], always set together by _flash
    bg_running,      \* _state["bg_running"]
    workers,         \* the background threads started by the routes and not yet finished
    produced,        \* how many distinct diff texts the collaborators have returned so far
    scope,           \* what this run is given: the plan the planner returns or the
                     \* user pastes, how many diff texts, the step ids requests name,
                     \* which local models can fail
    patchFiles,      \* .ai-build/patches/step-N.diff
    refinedFiles,    \* .ai-build/patches/step-N-refined.diff
    finalFile,       \* .ai-build/prompts/final_prompt.txt
    \* ---- ShutdownManager (shutdown.py) ----
    _called,         \* self._called
    _lock,           \* self._lock: the thread that holds it, NoThread when free
    _event,          \* self._event is set
    _callbacks,      \* self._callbacks, in the order of registration
    stacks,          \* thread -> its call frames, the running one last
    signals,         \* how many signals have been delivered
    cleaned          \* the cleanup steps carried out so far, in order

applyVars == <<fs, fsPre, patchSecs, patchText, result>>
sanVars   == <<sanIn, sanPieces, sanOut, sanOut2, extOut>>
memVars   == <<project_root, goal, diffs, refined_diffs, reviews, final_prompt,
               active_step_id, flash, bg_running>>
diskVars  == <<plan, patchFiles, refinedFiles, finalFile>>
shutVars  == <<_called, _lock, _event, _callbacks, stacks, signals, cleaned>>
srvVars   == <<memVars, diskVars, workers, produced, scope, shutVars>>
vars      == <<applyVars, sanVars, srvVars>>

NoResult == [kind |-> "none"]
NoText   == <<"<none>">>

(***************************************************************************)
(* Characters and Python string primitives                                 *)
(***************************************************************************)
Max(a, b) == IF a > b THEN a ELSE b
Min(a, b) == IF a < b THEN a ELSE b

Digits == {"0", "1", "2", "3", "4", "5", "6", "7", "8", "9"}

DigitVal(c) ==
    CASE c = "0" -> 0 [] c = "1" -> 1 [] c = "2" -> 2 [] c = "3" -> 3
      [] c = "4" -> 4 [] c = "5" -> 5 [] c = "6" -> 6 [] c = "7" -> 7
      [] c = "8" -> 8 [] c = "9" -> 9

DigitChar(d) ==
    CASE d = 0 -> "0" [] d = 1 -> "1" [] d = 2 -> "2" [] d = 3 -> "3"
      [] d = 4 -> "4" [] d = 5 -> "5" [] d = 6 -> "6" [] d = 7 -> "7"
      [] d = 8 -> "8" [] d = 9 -> "9"

\* int(s) for a run of decimal digits
RECURSIVE ToInt(_)
ToInt(ds) ==
    IF ds = <<>> THEN 0
    ELSE 10 * ToInt(SubSeq(ds, 1, Len(ds) - 1)) + DigitVal(ds[Len(ds)])

\* str(n) for n >= 0, as used by the f-string of _sanitize_diff
RECURSIVE ToStr(_)
ToStr(n) ==
    IF n < 10 THEN <<DigitChar(n)>>
    ELSE Append(ToStr(n \div 10), DigitChar(n % 10))

\* characters removed by str.strip()
Whitespace == {" ", "\n", "\r", "\t", "\f"}

\* line boundaries of str.splitlines() (besides the pair "\r\n")
LineBreaks == {"\n", "\r", "\f"}

\* s.startswith(p) at 1-based position i of t
StartsWithAt(t, i, p) ==
    /\ i + Len(p) - 1 <= Len(t)
    /\ \A k \in 1..Len(p) : t[i + k - 1] = p[k]

StartsWith(t, p) == StartsWithAt(t, 1, p)

\* least element of a non-empty set of integers
MinOf(S) == CHOOSE x \in S : \A y \in S : x <= y

\* least position j >= i of t holding a character of C, or Len(t) + 1
FirstIn(t, i, C) ==
    IF i > Len(t) THEN Len(t) + 1 ELSE
    CHOOSE j \in i..(Len(t) + 1) :
        /\ j = Len(t) + 1 \/ t[j] \in C
        /\ \A k \in i..(j - 1) : t[k] \notin C

\* least position j >= i of t holding a character outside C, or Len(t) + 1
FirstNotIn(t, i, C) ==
    IF i > Len(t) THEN Len(t) + 1 ELSE
    CHOOSE j \in i..(Len(t) + 1) :
        /\ j = Len(t) + 1 \/ t[j] \notin C
        /\ \A k \in i..(j - 1) : t[k] \in C

RECURSIVE Concat(_)
Concat(ss) == IF ss = <<>> THEN <<>> ELSE Head(ss) \o Concat(Tail(ss))

\* sep.join(ss)
RECURSIVE Join(_, _)
Join(ss, sep) ==
    IF ss = <<>> THEN <<>>
    ELSE IF Len(ss) = 1 THEN ss[1]
    ELSE ss[1] \o sep \o Join(Tail(ss), sep)

\* str.strip()
LStrip(t) == SubSeq(t, FirstNotIn(t, 1, Whitespace), Len(t))

RStrip(t) ==
    SubSeq(t, 1, CHOOSE j \in 0..Len(t) :
                    /\ j = 0 \/ t[j] \notin Whitespace
                    /\ \A k \in (j + 1)..Len(t) : t[k] \in Whitespace)

Strip(t) == LStrip(RStrip(t))

\* str.splitlines(keepends): "\r\n" is one boundary; no empty last element
RECURSIVE SplitFrom(_, _, _)
SplitFrom(t, i, keep) ==
    IF i > Len(t) THEN <<>>
    ELSE LET j    == FirstIn(t, i, LineBreaks)
             crlf == j < Len(t) /\ t[j] = "\r" /\ t[j + 1] = "\n"
             stop == IF j > Len(t) THEN Len(t) ELSE IF crlf THEN j + 1 ELSE j
         IN  <<SubSeq(t, i, IF keep THEN stop ELSE j - 1)>>
             \o SplitFrom(t, stop + 1, keep)

splitlines(t, keep) == SplitFrom(t, 1, keep)

\* text.replace("\r\n", "\n").replace("\r", "\n"); also what a text-mode
\* read does to a file (universal newlines)
RECURSIVE NormalizeFrom(_, _)
NormalizeFrom(t, i) ==
    LET j == FirstIn(t, i, {"\r"})
    IN  IF j > Len(t) THEN SubSeq(t, i, Len(t))
        ELSE SubSeq(t, i, j - 1) \o <<"\n">>
             \o NormalizeFrom(t, IF j < Len(t) /\ t[j + 1] = "\n" THEN j + 2 ELSE j + 1)

NormalizeNewlines(t) == NormalizeFrom(t, 1)

\* fh.readlines() of a text-mode file: split after every "\n", ends kept
RECURSIVE ReadFrom(_, _)
ReadFrom(t, i) ==
    IF i > Len(t) THEN <<>>
    ELSE LET j == Min(FirstIn(t, i, {"\n"}), Len(t))
         IN  <<SubSeq(t, i, j)>> \o ReadFrom(t, j + 1)

readlines(t) == ReadFrom(NormalizeNewlines(t), 1)

\* seq[i:j] with Python's treatment of negative and out-of-range bounds
\* (0-based, j exclusive); never raises
PyNorm(k, n) == IF k < 0 THEN Max(k + n, 0) ELSE Min(k, n)
PySlice(s, i, j) ==
    LET a == PyNorm(i, Len(s))
        b == PyNorm(j, Len(s))
    IN  IF a < b THEN SubSeq(s, a + 1, b) ELSE <<>>

\* seq[i:]
PySliceFrom(s, i) == PySlice(s, i, Len(s))

\* seq[i] raises IndexError outside -len..len-1
PyIndexOk(s, i) == i < Len(s) /\ i >= 0 - Len(s)
PyIndex(s, i) == IF i >= 0 THEN s[i + 1] ELSE s[Len(s) + i + 1]

\* position of the "\n" ending the line that contains i, or Len(t) + 1
\* (the lines of a regex end at "\n" only)
LineEnd(t, i) == FirstIn(t, i, {"\n"})

\* 1-based position of the start of the line after the one containing i
\* (Len(t) + 1 when there is none)
NextLineStart(t, i) == Min(LineEnd(t, i) + 1, Len(t) + 1)

\* length of the run of digits starting at position i (the greedy \d+)
DigitRun(t, i) == IF i > Len(t) THEN 0 ELSE FirstNotIn(t, i, Digits) - i

\* position after the greedy \d+ tried at position i (i itself: no digit)
AfterDigits(t, i) == i + DigitRun(t, i)

\* position after the optional group (?:,\d+)? tried at position i
AfterCount(t, i) ==
    IF i <= Len(t) /\ t[i] = "," /\ DigitRun(t, i + 1) > 0
    THEN AfterDigits(t, i + 1) ELSE i

(***************************************************************************)
(* git_ops.py: the algorithmic applier                                     *)
(***************************************************************************)
DIFF_GIT   == <<"d", "i", "f", "f", " ", "-", "-", "g", "i", "t", " ">>
MINUS_HDR  == <<"-", "-", "-", " ">>
PLUS_HDR   == <<"+", "+", "+", " ">>
HUNK_OPEN  == <<"@", "@", " ", "-">>
HUNK_MARK  == <<"@", "@">>
DEV_NULL   == <<"/", "d", "e", "v", "/", "n", "u", "l", "l">>

\* positions at which re.split(r"(?=^diff --git |\A(?=--- ))", ..., re.M) cuts
SplitPoints(t) ==
    {p \in 1..Len(t) : (p = 1 \/ t[p - 1] = "\n") /\ StartsWithAt(t, p, DIFF_GIT)}
        \cup (IF StartsWith(t, MINUS_HDR) THEN {1} ELSE {})

RECURSIVE SplitAt(_, _, _)
SplitAt(t, pts, start) ==
    LET later == {p \in pts : p > start}
    IN  IF later = {} THEN <<SubSeq(t, start, Len(t))>>
        ELSE <<SubSeq(t, start, MinOf(later) - 1)>> \o SplitAt(t, pts, MinOf(later))

\* file_blocks = re.split(...): the text before the first cut, then one
\* piece per cut
file_blocks(patch_text) ==
    LET pts == SplitPoints(patch_text)
    IN  IF 1 \in pts THEN <<(<<>>)>> \o SplitAt(patch_text, pts, 1)
        ELSE SplitAt(patch_text, pts, 1)

\* re.search(r"^\+\+\+ (?:b/)?(.+)$", block, re.M), from line start p on
RECURSIVE SearchTarget(_, _)
SearchTarget(b, p) ==
    IF p > Len(b) THEN [found |-> FALSE, path |-> <<>>]
    ELSE LET e    == LineEnd(b, p)
             rest == SubSeq(b, p + 4, e - 1)
         IN  IF StartsWithAt(b, p, PLUS_HDR) /\ rest # <<>>
             THEN [found |-> TRUE,
                   path  |-> IF StartsWith(rest, <<"b", "/">>) /\ Len(rest) > 2
                             THEN SubSeq(rest, 3, Len(rest)) ELSE rest]
             ELSE SearchTarget(b, NextLineStart(b, p))

\* the header part of the hunk regex,
\*   ^@@ -(\d+)(?:,(\d+))? \+(\d+)(?:,(\d+))? @@[^\n]*\n
\* tried at line start p; bodyStart is the position after the header line
HunkHeaderAt(b, p) ==
    LET q1 == AfterDigits(b, p + 4)
        q2 == AfterCount(b, q1)
        q3 == AfterDigits(b, q2 + 2)
        q4 == AfterCount(b, q3)
        e  == LineEnd(b, q4)
    IN  [ok        |-> /\ StartsWithAt(b, p, HUNK_OPEN)
                       /\ q1 > p + 4
                       /\ StartsWithAt(b, q2, <<" ", "+">>)
                       /\ q3 > q2 + 2
                       /\ StartsWithAt(b, q4, <<" ", "@", "@">>)
                       /\ e <= Len(b),
         start     |-> ToInt(SubSeq(b, p + 4, q1 - 1)),
         bodyStart |-> e + 1]

\* end of the lazy body (.*?)(?=^@@|\Z): the first line start at or after q
\* that begins with "@@", or the end of the block
RECURSIVE BodyEnd(_, _)
BodyEnd(b, q) ==
    IF q > Len(b) THEN Len(b) + 1
    ELSE IF StartsWithAt(b, q, HUNK_MARK) THEN q
    ELSE BodyEnd(b, NextLineStart(b, q))

\* list(re.finditer(hunk regex, block, re.M | re.S)) from line start p on
RECURSIVE FindHunks(_, _)
FindHunks(b, p) ==
    IF p > Len(b) THEN <<>>
    ELSE LET h == HunkHeaderAt(b, p)
         IN  IF h.ok
             THEN LET e == BodyEnd(b, h.bodyStart)
                  IN  <<[start |-> h.start,
                         body  |-> SubSeq(b, h.bodyStart, e - 1)]>>
                      \o FindHunks(b, e)
             ELSE FindHunks(b, NextLineStart(b, p))

\* the loop over hunk_lines; st = [new, pos, err], err = IndexError raised
\* the loop over the lines of one hunk, were a context line copied from the patch
RECURSIVE ApplyBodyFromPatch(_, _, _)
ApplyBodyFromPatch(hls, lines, st) ==
    IF hls = <<>> \/ st.err THEN st
    ELSE LET hl == Head(hls)
         IN  IF hl[1] = "+"
             THEN ApplyBodyFromPatch(Tail(hls), lines,
                                     [st EXCEPT !.new = Append(@, Tail(hl))])
             ELSE IF hl[1] = "-"
             THEN ApplyBodyFromPatch(Tail(hls), lines, [st EXCEPT !.pos = @ + 1])
             ELSE IF PyIndexOk(lines, st.pos)
             THEN ApplyBodyFromPatch(Tail(hls), lines,
                                     [st EXCEPT !.new = Append(@, Tail(hl)),
                                                !.pos = @ + 1])
             ELSE [st EXCEPT !.err = TRUE]

\* the loop over the lines of one hunk (for hl in hunk_lines)
RECURSIVE ApplyBody(_, _, _)
ApplyBody(hls, lines, st) ==
    IF hls = <<>> \/ st.err THEN st
    ELSE LET hl == Head(hls)
         IN  IF hl[1] = "+"
             THEN ApplyBody(Tail(hls), lines,
                            [st EXCEPT !.new = Append(@, Tail(hl))])
             ELSE IF hl[1] = "-"
             THEN ApplyBody(Tail(hls), lines, [st EXCEPT !.pos = @ + 1])
             ELSE IF PyIndexOk(lines, st.pos)
             THEN ApplyBody(Tail(hls), lines,
                            [st EXCEPT !.new = Append(@, PyIndex(lines, st.pos)),
                                       !.pos = @ + 1])
             ELSE [st EXCEPT !.err = TRUE]

\* the loop over hunks
RECURSIVE ApplyHunks(_, _, _)
ApplyHunks(hs, lines, st) ==
    IF hs = <<>> \/ st.err THEN st
    ELSE LET src_start == Head(hs).start - 1
             copied    == [st EXCEPT !.new = @ \o PySlice(lines, st.pos, src_start),
                                     !.pos = src_start]
         IN  ApplyHunks(Tail(hs), lines,
                        ApplyBody(splitlines(Head(hs).body, TRUE), lines, copied))

\* new_lines of one file, or err
NewLines(hunks, lines) ==
    LET st == ApplyHunks(hunks, lines, [new |-> <<>>, pos |-> 0, err |-> FALSE])
    IN  IF st.err THEN st
        ELSE [st EXCEPT !.new = @ \o PySliceFrom(lines, st.pos)]

\* fh.writelines(new_lines) into target
WriteFile(tree, path, new_lines) ==
    [p \in (DOMAIN tree) \cup {path} |->
        IF p = path THEN Concat(new_lines) ELSE tree[p]]

\* one iteration of "for block in file_blocks"; acc = [fs, applied, errors]
ApplyBlock(acc, raw) ==
    LET block    == Strip(raw)
        m        == SearchTarget(block, 1)
        rel_path == Strip(m.path)
        lines    == IF rel_path \in DOMAIN acc.fs
                    THEN readlines(acc.fs[rel_path]) ELSE <<>>
        hunks    == FindHunks(block, 1)
        st       == NewLines(hunks, lines)
    IN  IF block = <<>> \/ ~m.found \/ rel_path = DEV_NULL \/ hunks = <<>>
        THEN acc
        ELSE IF st.err
        THEN [acc EXCEPT !.errors = Append(@, rel_path)]
        ELSE [acc EXCEPT !.fs = WriteFile(@, rel_path, st.new),
                         !.applied = Append(@, rel_path)]

RECURSIVE ApplyBlocks(_, _)
ApplyBlocks(acc, blocks) ==
    IF blocks = <<>> THEN acc
    ELSE ApplyBlocks(ApplyBlock(acc, Head(blocks)), Tail(blocks))

\* the three returns that end _apply_patch_python
PythonResult(acc) ==
    IF acc.errors # <<>>
    THEN [kind |-> "python", success |-> FALSE, message |-> "Patch errors",
          applied |-> acc.applied, errors |-> acc.errors, fs |-> acc.fs]
    ELSE IF acc.applied = <<>>
    THEN [kind |-> "python", success |-> FALSE, message |-> "No files were changed",
          applied |-> acc.applied, errors |-> acc.errors, fs |-> acc.fs]
    ELSE [kind |-> "python", success |-> TRUE, message |-> "Patch applied to",
          applied |-> acc.applied, errors |-> acc.errors, fs |-> acc.fs]

\* _apply_patch_python(patch_file, root) on working tree `tree`
_apply_patch_python(tree, patch_file) ==
    LET patch_text == NormalizeNewlines(patch_file)
    IN  PythonResult(ApplyBlocks([fs |-> tree, applied |-> <<>>, errors |-> <<>>],
                                 file_blocks(patch_text)))

\* apply_patch(patch_file, root).  in_repo, dry_ok and real_ok are the
\* verdicts of the external git tool (rev-parse, apply --check, apply);
\* trail lists the stages the call went through and codes the verdicts of the
\* git commands it ran, in order.  What git itself writes when it applies a
\* patch is outside this model: the tree is left as it is and only the
\* reported success is recorded.
apply_patch_strict(tree, patch_file, in_repo, dry_ok, real_ok) ==
    IF patch_file = NoText
    THEN [kind |-> "missing", success |-> FALSE, message |-> "Patch file not found",
          applied |-> <<>>, errors |-> <<>>, fs |-> tree, trail |-> <<>>,
          codes |-> <<>>]
    ELSE IF in_repo /\ ~dry_ok
    THEN [kind |-> "git", success |-> FALSE, message |-> "git apply --check failed",
          applied |-> <<>>, errors |-> <<>>, fs |-> tree, trail |-> <<"check">>,
          codes |-> <<TRUE, FALSE>>]
    ELSE IF in_repo /\ real_ok
    THEN [kind |-> "git", success |-> TRUE, message |-> "Patch applied successfully.",
          applied |-> <<>>, errors |-> <<>>, fs |-> tree, trail |-> <<"check", "apply">>,
          codes |-> <<TRUE, TRUE, TRUE>>]
    ELSE _apply_patch_python(tree, patch_file)
         @@ [trail |-> IF ~in_repo THEN <<"python">>
                       ELSE <<"check", "apply", "python">>,
             codes |-> IF ~in_repo THEN <<FALSE>> ELSE <<TRUE, TRUE, FALSE>>]

apply_patch(tree, patch_file, in_repo, dry_ok, real_ok) ==
    IF patch_file = NoText
    THEN [kind |-> "missing", success |-> FALSE, message |-> "Patch file not found",
          applied |-> <<>>, errors |-> <<>>, fs |-> tree, trail |-> <<>>,
          codes |-> <<>>]
    ELSE IF in_repo /\ dry_ok /\ real_ok
    THEN [kind |-> "git", success |-> TRUE, message |-> "Patch applied successfully.",
          applied |-> <<>>, errors |-> <<>>, fs |-> tree, trail |-> <<"check", "apply">>,
          codes |-> <<TRUE, TRUE, TRUE>>]
    ELSE _apply_patch_python(tree, patch_file)
         @@ [trail |-> IF ~in_repo THEN <<"python">>
                       ELSE IF ~dry_ok THEN <<"check", "python">>
                       ELSE <<"check", "apply", "python">>,
             codes |-> IF ~in_repo THEN <<FALSE>>
                       ELSE IF ~dry_ok THEN <<TRUE, FALSE>>
                       ELSE <<TRUE, TRUE, FALSE>>]

(***************************************************************************)
(* local_patcher.py: the sanitizer                                         *)
(***************************************************************************)
DIFF_WORD == <<"d", "i", "f", "f", " ">>

\* re.match(r"@@ -(\d+)(?:,\d+)? \+(\d+)(?:,\d+)? @@(.*)", line)
SanHeader(line) ==
    LET q1 == AfterDigits(line, 5)
        q2 == AfterCount(line, q1)
        q3 == AfterDigits(line, q2 + 2)
        q4 == AfterCount(line, q3)
    IN  [ok         |-> /\ StartsWith(line, HUNK_OPEN)
                        /\ q1 > 5
                        /\ StartsWithAt(line, q2, <<" ", "+">>)
                        /\ q3 > q2 + 2
                        /\ StartsWithAt(line, q4, <<" ", "@", "@">>),
         orig_start |-> SubSeq(line, 5, q1 - 1),
         new_start  |-> SubSeq(line, q2 + 2, q3 - 1),
         tail       |-> SubSeq(line, q4 + 3, Len(line))]

\* a line that ends a hunk body: the next @@ or a file header
EndsHunkBody(l) ==
    StartsWith(l, HUNK_MARK) \/ StartsWith(l, MINUS_HDR) \/ StartsWith(l, DIFF_WORD)

\* the @@ line, were it passed through with the counts the generator wrote
KeepHeader(line, hunk_body) == line

\* the rewritten @@ line: original starts, recalculated counts, original tail
RewriteHeader(line, hunk_body) ==
    LET m == SanHeader(line)
        orig_count == Cardinality({k \in 1..Len(hunk_body) :
                          StartsWith(hunk_body[k], <<" ">>) \/ StartsWith(hunk_body[k], <<"-">>)})
        new_count  == Cardinality({k \in 1..Len(hunk_body) :
                          StartsWith(hunk_body[k], <<" ">>) \/ StartsWith(hunk_body[k], <<"+">>)})
    IN  IF m.ok
        THEN HUNK_OPEN \o m.orig_start \o <<",">> \o ToStr(orig_count)
             \o <<" ", "+">> \o m.new_start \o <<",">> \o ToStr(new_count)
             \o <<" ", "@", "@">> \o m.tail
        ELSE line

\* the while loop of _sanitize_diff from index i (1-based) on: the list `out`
RECURSIVE SanitizeLines(_, _)
SanitizeLines(lines, i) ==
    IF i > Len(lines) THEN <<>>
    ELSE IF ~StartsWith(lines[i], HUNK_MARK)
         THEN <<lines[i]>> \o SanitizeLines(lines, i + 1)
    ELSE LET j == MinOf({k \in (i + 1)..Len(lines) : EndsHunkBody(lines[k])}
                        \cup {Len(lines) + 1})
             hunk_body == SubSeq(lines, i + 1, j - 1)
         IN  <<RewriteHeader(lines[i], hunk_body)>> \o hunk_body
             \o SanitizeLines(lines, j)

\* _sanitize_diff(text)
_sanitize_diff(text) ==
    LET lines  == splitlines(NormalizeNewlines(text), FALSE)
        joined == Join(SanitizeLines(lines, 1), <<"\n">>)
    IN  IF joined # <<>> /\ joined[Len(joined)] = "\n" THEN joined
        ELSE Append(joined, "\n")

(***************************************************************************)
(* local_patcher.py: the diff extractor                                    *)
(***************************************************************************)
\* a fence of three backquotes; the backquote is written "~" in this module
FENCE     == <<"~", "~", "~">>
DASH_A    == <<"-", " ", "a", "/">>
PLUS_B    == <<"+", "+", "+", " ", "b", "/">>
PLUS_NULL == <<"+", "+", "+", " ", "/", "d", "e", "v", "/", "n", "u", "l", "l">>

\* line.rstrip("\n\r")
RStripEol(l) ==
    SubSeq(l, 1, CHOOSE j \in 0..Len(l) :
                    /\ j = 0 \/ l[j] \notin {"\n", "\r"}
                    /\ \A k \in (j + 1)..Len(l) : l[k] \in {"\n", "\r"})

\* position after the optional group (?:FENCE+\s*)? at the start of l
AfterFence(l) ==
    IF StartsWith(l, FENCE)
    THEN FirstNotIn(l, FirstNotIn(l, 1, {"~"}), Whitespace)
    ELSE 1

\* re.match(r"^(?:FENCE+\s*)?- a/", stripped)
DashHeader(l) ==
    StartsWithAt(l, AfterFence(l), DASH_A) \/ StartsWith(l, DASH_A)

\* re.match(r"^\+\+\+ (?:b/|/dev/null)", next_stripped)
PlusHeader(l) == StartsWith(l, PLUS_B) \/ StartsWith(l, PLUS_NULL)

\* re.sub(r"^(?:FENCE+\s*)?-\s+", "--- ", stripped) + "\n", of a line DashHeader holds of
Repaired(l) ==
    LET p == IF StartsWithAt(l, AfterFence(l), DASH_A) THEN AfterFence(l) ELSE 1
    IN  MINUS_HDR \o SubSeq(l, FirstNotIn(l, p + 1, Whitespace), Len(l)) \o <<"\n">>

\* step 1: fixed_lines
FixedLines(raw_lines) ==
    [i \in 1..Len(raw_lines) |->
        IF /\ DashHeader(RStripEol(raw_lines[i]))
           /\ i < Len(raw_lines)
           /\ PlusHeader(RStripEol(raw_lines[i + 1]))
        THEN Repaired(RStripEol(raw_lines[i]))
        ELSE raw_lines[i]]

\* step 2 on the lines of a text that starts with a fence: the lines between
\* the first fence line and the last line that is a bare fence
InsideFences(inner_lines) ==
    LET fences == {j \in 1..Len(inner_lines) : StartsWith(Strip(inner_lines[j]), FENCE)}
        start  == IF fences = {} THEN 1 ELSE MinOf(fences)
        closes == {j \in (start + 1)..Len(inner_lines) : Strip(inner_lines[j]) = FENCE}
        end    == IF closes = {} THEN Len(inner_lines) + 1
                  ELSE CHOOSE j \in closes : \A k \in closes : k <= j
    IN  SubSeq(inner_lines, start + 1, end - 1)

\* step 2: strip outer markdown code fences if present
Unfenced(text) ==
    IF StartsWith(LStrip(text), FENCE)
    THEN Join(InsideFences(splitlines(text, FALSE)), <<"\n">>)
    ELSE text

\* a line step 3 takes for the first (mark = "-") or second (mark = "+")
\* line of a header pair: "--- " or "+++ " and a "/" somewhere in the line
PairLine(l, mark) ==
    /\ StartsWith(l, <<mark, mark, mark, " ">>)
    /\ \E k \in 1..Len(l) : l[k] = "/"

\* step 3: the first valid --- / +++ header pair, and everything from it on
FromFirstPair(lines) ==
    LET at == {i \in 1..(Len(lines) - 1) :
                  /\ PairLine(RStripEol(lines[i]), "-")
                  /\ PairLine(RStripEol(lines[i + 1]), "+")}
    IN  IF at = {} THEN [found |-> FALSE, text |-> <<>>]
        ELSE [found |-> TRUE, text |-> Concat(SubSeq(lines, MinOf(at), Len(lines)))]

\* _extract_diff(text); found = FALSE stands for None
_extract_diff(text) ==
    FromFirstPair(splitlines(Unfenced(Concat(FixedLines(splitlines(text, TRUE)))), TRUE))

(***************************************************************************)
(* Inputs of the applier: working trees and patches                        *)
(***************************************************************************)
MaxStart == 3     \* largest @@ start line a generated hunk names

PathA == <<"A">>
PathB == <<"B">>
Paths == {PathA, PathB}

\* A holds the five lines "o", "j", "p", "", ""; B holds the single line "c"
FileA0 == <<"o", "\n", "j", "\n", "p", "\n", "\n", "\n">>
FileB0 == <<"c", "\n">>

InitTrees == {(PathA :> FileA0) @@ (PathB :> FileB0), (PathA :> FileA0)}

\* hunk bodies: context+add, add only, context that does not match the
\* file, remove, add followed by context
Bodies == {
    <<" ", "o", "\n", " ", "j", "\n", " ", "p", "\n", "+", "l", "\n">>,
    <<"+", "x", "\n", "+", "y", "\n">>,
    <<" ", "z", "\n", "+", "x", "\n">>,
    <<"-", "o", "\n">>,
    <<"+", "x", "\n", " ", "o", "\n">> }

Hunks == [start : 0..MaxStart, body : Bodies]

EditKinds == {"modify", "create", "delete"}

FileEdits == [path : Paths, kind : EditKinds, hunks : {<<h>> : h \in Hunks}]

\* the first edit of a two-file patch: of A, adding lines
FirstEdits ==
    {e \in FileEdits : e.path = PathA /\ e.kind # "create"
                       /\ \A k \in 1..Len(e.hunks[1].body) : e.hunks[1].body[k] \notin {"-", "z"}}

\* a patch is one file edit with one hunk, an edit of A with two hunks, or
\* an edit of A followed by an edit of B with one hunk each; git says
\* whether "diff --git" lines are written
PatchInputs ==
    [git : BOOLEAN,
     secs : {<<e>> : e \in FileEdits}
            \cup {<<[path |-> PathA, kind |-> "modify", hunks |-> <<h1, h2>>]>> :
                     h1 \in Hunks, h2 \in Hunks}
            \cup {<<e1, e2>> : e1 \in FirstEdits, e2 \in {e \in FileEdits : e.path = PathB}} ]

CountLines(body, marks) ==
    LET ls == splitlines(body, FALSE)
    IN  Cardinality({k \in 1..Len(ls) : ls[k] # <<>> /\ ls[k][1] \in marks})

OrigCount(body) == CountLines(body, {" ", "-"})
NewCount(body)  == CountLines(body, {" ", "+"})

HunkText(h) ==
    HUNK_OPEN \o ToStr(h.start) \o <<",">> \o ToStr(OrigCount(h.body))
    \o <<" ", "+">> \o ToStr(h.start) \o <<",">> \o ToStr(NewCount(h.body))
    \o <<" ", "@", "@", "\n">> \o h.body

RECURSIVE HunksText(_)
HunksText(hs) == IF hs = <<>> THEN <<>> ELSE HunkText(Head(hs)) \o HunksText(Tail(hs))

EditText(e, git) ==
    (IF git THEN DIFF_GIT \o <<"a", "/">> \o e.path \o <<" ", "b", "/">> \o e.path \o <<"\n">>
     ELSE <<>>)
    \o MINUS_HDR \o (IF e.kind = "create" THEN DEV_NULL ELSE <<"a", "/">> \o e.path) \o <<"\n">>
    \o PLUS_HDR \o (IF e.kind = "delete" THEN DEV_NULL ELSE <<"b", "/">> \o e.path) \o <<"\n">>
    \o HunksText(e.hunks)

RECURSIVE EditsText(_, _)
EditsText(es, git) ==
    IF es = <<>> THEN <<>> ELSE EditText(Head(es), git) \o EditsText(Tail(es), git)

PatchFileText(pi) == EditsText(pi.secs, pi.git)

(***************************************************************************)
(* GUI server (server.py): session state, the .ai-build directory and the  *)
(* helpers the routes share.  A diff is known by the number of the text    *)
(* the collaborator returned (text) and by the draft it was made from      *)
(* (draft); a review by the text it was written for.                       *)
(***************************************************************************)
MaxDiffs == 1
MaxDrafts == 2

\* a plan as a planner returns it or the user pastes it: every step pending
TwoSteps == [exists |-> TRUE,
             steps  |-> <<[id |-> 1, status |-> "pending"],
                          [id |-> 2, status |-> "pending"]>>]
OneStep  == [exists |-> TRUE,
             steps  |-> <<[id |-> 1, status |-> "pending"]>>]
\* save_plan_route stores the list the user pastes as it is: here the step
\* with the greatest id comes second
OutOfOrder == [exists |-> TRUE,
               steps  |-> <<[id |-> 1, status |-> "pending"],
                            [id |-> 3, status |-> "pending"],
                            [id |-> 2, status |-> "pending"]>>]

\* the ids of the steps of a plan
IdsOf(p) == {p.steps[i].id : i \in 1..Len(p.steps)}

\* a run over a plan of two steps, a run over a plan of one step in which the
\* collaborators return more texts, and a run over a pasted plan of three
\* steps; ids: the step ids the requests of the run name
\* the local models a run may see fail
Models == {"planner", "patcher", "reviewer", "refiner"}

PlanScope   == [plan |-> TwoSteps, texts |-> MaxDiffs, ids |-> IdsOf(TwoSteps),
                fails |-> Models]
DraftsScope == [plan |-> OneStep, texts |-> MaxDrafts, ids |-> IdsOf(TwoSteps),
                fails |-> Models]
OrderScope  == [plan |-> OutOfOrder, texts |-> MaxDiffs, ids |-> IdsOf(OneStep),
                fails |-> {"refiner"}]
BatchScope  == [plan |-> TwoSteps, texts |-> MaxDrafts, ids |-> IdsOf(TwoSteps),
                fails |-> Models]

\* the plan of this run
NewPlan == scope.plan

\* the step ids requests and session state speak of
StepIds == IdsOf(OutOfOrder)

NoStep   == 0
NoDiff   == [text |-> 0, draft |-> 0]
NoReview == [of |-> 0]
NoPlan   == [exists |-> FALSE, steps |-> <<>>]
NoPrompt == [made |-> FALSE, diffs |-> {}]
NoFlash  == [info |-> "", error |-> ""]
NoEntries(v) == [s \in StepIds |-> v]

\* the prompt assemble_final_prompt builds from the diffs ds (pairs of a step
\* id and a diff): it is known by the diffs it was built from
Prompt(ds) == [made |-> TRUE, diffs |-> ds]

_flash(msg, error) == [info |-> msg, error |-> error]

\* The texts of the messages are told apart as far as the routes' outcomes
\* differ: one info message, and one error message per kind of refusal
Ok           == "ok"
Busy         == "already running - please wait"
NoDiffFound  == "No diff found - generate a patch first"
NoActiveStep == "No active step selected"
Invalid      == "request refused"
Failed       == "collaborator failed"
PatchFailed  == "Ollama patch generation failed"
Ready        == "Run All complete - final prompt ready"

\* a or b, on diffs
Or(a, b) == IF a # NoDiff THEN a ELSE b

\* d.pop(k, None)
Pop(d, k, none) == [s \in DOMAIN d |-> IF s = k THEN none ELSE d[s]]

\* index of the first step with this id, 0 when there is none
Find(steps, sid) ==
    IF \E i \in 1..Len(steps) : steps[i].id = sid
    THEN MinOf({i \in 1..Len(steps) : steps[i].id = sid})
    ELSE 0

\* next((s for s in plan["steps"] if status == "pending"), None), as an id
FirstPending(steps) ==
    IF \E i \in 1..Len(steps) : steps[i].status = "pending"
    THEN steps[MinOf({i \in 1..Len(steps) : steps[i].status = "pending"})].id
    ELSE NoStep

StatusOf(p, sid) ==
    IF p.exists /\ Find(p.steps, sid) # 0 THEN p.steps[Find(p.steps, sid)].status
    ELSE "none"

update_step_status(p, step_id, status) ==
    IF ~p.exists THEN p
    ELSE [p EXCEPT !.steps = [i \in 1..Len(p.steps) |->
              IF i = Find(p.steps, step_id)
              THEN [p.steps[i] EXCEPT !.status = status]
              ELSE p.steps[i]]]

\* load_plan() if _state.get("project_root") else None
ShownPlan == IF project_root # "" THEN plan ELSE NoPlan

\* the id of the step _active_step() returns, NoStep when it returns None
_active_step ==
    IF ~ShownPlan.exists \/ active_step_id = NoStep THEN NoStep
    ELSE IF Find(ShownPlan.steps, active_step_id) = 0 THEN NoStep
    ELSE active_step_id

_first_pending_step ==
    IF ShownPlan.exists THEN FirstPending(ShownPlan.steps) ELSE NoStep

\* the pointer the approve and skip routes move to after the status change
NextActive(p) == IF p.exists THEN FirstPending(p.steps) ELSE NoStep

\* the diff of a step, were the draft looked up before the refined diff
DiffForDraftFirst(sid, rd, dd, on_disk) ==
    Or(Or(dd[sid], rd[sid]),
       IF on_disk THEN Or(patchFiles[sid], refinedFiles[sid]) ELSE NoDiff)

\* the diff a step is known by: refined, else draft, else (when the code
\* falls back to the patch files) refined file, else draft file
DiffFor(sid, rd, dd, on_disk) ==
    Or(Or(rd[sid], dd[sid]),
       IF on_disk THEN Or(refinedFiles[sid], patchFiles[sid]) ELSE NoDiff)

\* approved_diffs of assemble_prompt and run_all
ApprovedDiffs(p, rd, dd, on_disk) ==
    IF ~p.exists THEN {}
    ELSE { <<p.steps[i].id, DiffFor(p.steps[i].id, rd, dd, on_disk)>> :
             i \in { k \in 1..Len(p.steps) :
                       /\ p.steps[k].status = "approved"
                       /\ DiffFor(p.steps[k].id, rd, dd, on_disk) # NoDiff } }

\* prior_diffs of the patch-local thread (from the plan file, with the patch
\* files to fall back on) and of the run-all thread (from the plan the request
\* loaded, session entries only) for step sid
PriorDiffs(p, sid, rd, dd, on_disk) ==
    IF ~p.exists THEN {}
    ELSE { <<p.steps[i].id, DiffFor(p.steps[i].id, rd, dd, on_disk)>> :
             i \in { k \in 1..Len(p.steps) :
                       /\ p.steps[k].id < sid
                       /\ p.steps[k].status \in {"approved", "applied"}
                       /\ DiffFor(p.steps[k].id, rd, dd, on_disk) # NoDiff } }

\* the threads of a set of workers
Threads(ws) == {w.tid : w \in ws}

\* a background thread: what it runs, where it is, and its local variables
Worker(kind, pc, sid) ==
    [kind |-> kind, pc |-> pc, sid |-> sid, diff |-> NoDiff, review |-> NoReview,
     prior |-> {}, snap |-> NoPlan, todo |-> <<>>, count |-> 0,
     got |-> "", held |-> NoPlan,
     tid |-> MinOf((1..(Cardinality(workers) + 1)) \ Threads(workers))]

\* the next diff text a collaborator returns, made from draft text d
\* (d = 0: a new draft)
\* a diff text as a model or the user hands it over, before any cleaning
RawDiff(d) ==
    [text |-> produced + 1, draft |-> IF d = 0 THEN produced + 1 ELSE d,
     clean |-> FALSE]

\* _sanitize_diff on a diff of the pipeline: the text is now the sanitizer's output
Sanitized(x) == [x EXCEPT !.clean = TRUE]

\* the diff that generate_patch_local, refine_patch and review_patch_route keep:
\* each of them passes the text through _sanitize_diff
NewDiff(d) == Sanitized(RawDiff(d))

(***************************************************************************)
(* shutdown.py: the ShutdownManager                                        *)
(***************************************************************************)
NoThread   == 0
MainThread == 1

\* how many threads the /shutdown route starts, how many signals arrive, how
\* many callbacks the main thread registers
MaxRouteThreads == 1
MaxSignals      == 2
MaxCallbacks    == 2

ShutThreads == 1..(1 + MaxRouteThreads)

\* a call frame: what runs, where it is, the callbacks it has still to call,
\* and (seen) how many callbacks were registered when it triggered the shutdown
Frame(op, pc) == [op |-> op, pc |-> pc, todo |-> <<>>, seen |-> 0]

Top(t) == stacks[t][Len(stacks[t])]

\* thread t has not come to its end
Running(t) == Top(t).pc # "ended"

SetTop(t, f) == stacks' = [stacks EXCEPT ![t] = [@ EXCEPT ![Len(@)] = f]]

Goto(t, pc) == SetTop(t, [Top(t) EXCEPT !.pc = pc])

\* a call of shutdown() by the code that runs on thread t: a new frame on top
\* of the frame at hand, which is left at pc
Call(t, pc) ==
    stacks' = [stacks EXCEPT ![t] =
                  Append([@ EXCEPT ![Len(@)].pc = pc], Frame("shutdown", "enter"))]

Return(t) == stacks' = [stacks EXCEPT ![t] = SubSeq(@, 1, Len(@) - 1)]

\* the manager after __init__ and the threads of the process: the main thread
\* is about to register its callbacks, a route thread is not started yet
ShutInit ==
    /\ _called = FALSE
    /\ _lock = NoThread
    /\ _event = FALSE
    /\ _callbacks = <<>>
    /\ stacks = [t \in ShutThreads |->
                    IF t = MainThread THEN <<Frame("run_server", "register")>>
                    ELSE <<Frame("shutdown_route", "idle")>>]
    /\ signals = 0
    /\ cleaned = <<>>

restVars == <<applyVars, sanVars, memVars, diskVars, workers, produced, scope>>

\* with self._lock: the frame at pc `from` of thread t takes the lock.  The
\* lock is a threading.Lock: it is not handed again to the thread that holds it.
Acquire(t, from, to) ==
    /\ Top(t).pc = from
    /\ _lock = NoThread
    /\ Goto(t, to)
    /\ _lock' = t

\* register_callback: the lock is taken, ...
RegisterLock(t) ==
    /\ Top(t).op = "run_server"
    /\ Len(_callbacks) < MaxCallbacks
    /\ Acquire(t, "register", "append")
    /\ UNCHANGED <<_called, _event, _callbacks, signals, cleaned>>
    /\ UNCHANGED restVars

\* ... the callback appended and the lock released
RegisterAppend(t) ==
    /\ Top(t).op = "run_server"
    /\ Top(t).pc = "append"
    /\ _callbacks' = Append(_callbacks, Len(_callbacks) + 1)
    /\ _lock' = NoThread
    /\ Goto(t, "register")
    /\ UNCHANGED <<_called, _event, signals, cleaned>>
    /\ UNCHANGED restVars

\* run_server: sm.wait() is called once the server's callback is registered
Wait(t) ==
    /\ Top(t).op = "run_server"
    /\ Top(t).pc = "register"
    /\ _callbacks # <<>>
    /\ Goto(t, "wait")
    /\ UNCHANGED <<_called, _lock, _event, _callbacks, signals, cleaned>>
    /\ UNCHANGED restVars

\* the main thread leaves its program, wait() having returned or without
\* having waited (sys.exit), and the interpreter runs _atexit_handler
AtExit(t) ==
    /\ Top(t).op = "run_server"
    /\ \/ Top(t).pc = "register"
       \/ Top(t).pc = "wait" /\ _event
    /\ IF ~_called THEN Call(t, "ended") ELSE Goto(t, "ended")
    /\ UNCHANGED <<_called, _lock, _event, _callbacks, signals, cleaned>>
    /\ UNCHANGED restVars

\* _signal_handler: SIGINT or SIGTERM is delivered; the handler runs on the
\* main thread, on top of whatever the main thread was doing
Signal ==
    /\ Running(MainThread)
    /\ signals < MaxSignals
    /\ signals' = signals + 1
    /\ Call(MainThread, Top(MainThread).pc)
    /\ UNCHANGED <<_called, _lock, _event, _callbacks, cleaned>>
    /\ UNCHANGED restVars

\* shutdown_route: a thread is started that calls sm.shutdown
shutdown_route(t) ==
    /\ Top(t).op = "shutdown_route"
    /\ Top(t).pc = "idle"
    /\ Call(t, "ended")
    /\ UNCHANGED <<_called, _lock, _event, _callbacks, signals, cleaned>>
    /\ UNCHANGED restVars

\* shutdown(): with self._lock, first block: the lock is taken, ...
ShutdownEnter(t) ==
    /\ Top(t).op = "shutdown"
    /\ Acquire(t, "enter", "test")
    /\ UNCHANGED <<_called, _event, _callbacks, signals, cleaned>>
    /\ UNCHANGED restVars

\* ... _called is tested and set, and the lock released: a call that finds it
\* set returns at once
ShutdownTest(t) ==
    /\ Top(t).op = "shutdown"
    /\ Top(t).pc = "test"
    /\ _lock' = NoThread
    /\ IF _called THEN Return(t) /\ UNCHANGED _called
       ELSE /\ _called' = TRUE
            /\ SetTop(t, [Top(t) EXCEPT !.pc = "callbacks", !.seen = Len(_callbacks)])
    /\ UNCHANGED <<_event, _callbacks, signals, cleaned>>
    /\ UNCHANGED restVars

\* the lock is taken to copy the callbacks, the subprocesses, the temp files
ShutdownLock(t) ==
    /\ Top(t).op = "shutdown"
    /\ \/ Acquire(t, "callbacks", "callbacks_held")
       \/ Acquire(t, "procs", "procs_held")
       \/ Acquire(t, "files", "files_held")
    /\ UNCHANGED <<_called, _event, _callbacks, signals, cleaned>>
    /\ UNCHANGED restVars

\* the callbacks in the order of their registration
Registered(q) == q

\* list(reversed(self._callbacks))
Reversed(q) == [i \in 1..Len(q) |-> q[Len(q) + 1 - i]]

Done(what, id) == [what |-> what, id |-> id]

\* the copy is taken and the lock released: callbacks = list(reversed(...));
\* the subprocesses are terminated; the temp files are deleted
ShutdownCopy(t) ==
    /\ Top(t).op = "shutdown"
    /\ _lock' = NoThread
    /\ \/ /\ Top(t).pc = "callbacks_held"
          /\ SetTop(t, [Top(t) EXCEPT !.pc = "calling", !.todo = Reversed(_callbacks)])
          /\ UNCHANGED cleaned
       \/ /\ Top(t).pc = "procs_held"
          /\ Goto(t, "files")
          /\ cleaned' = Append(cleaned, Done("subprocesses", 0))
       \/ /\ Top(t).pc = "files_held"
          /\ Goto(t, "event")
          /\ cleaned' = Append(cleaned, Done("temp files", 0))
    /\ UNCHANGED <<_called, _event, _callbacks, signals>>
    /\ UNCHANGED restVars

\* for name, fn in callbacks: fn() is called, were there no try around the
\* call: what a callback raises ends the call of shutdown()
ShutdownCallUncaught(t) ==
    /\ Top(t).op = "shutdown"
    /\ Top(t).pc = "calling"
    /\ IF Top(t).todo = <<>>
       THEN Goto(t, "procs") /\ UNCHANGED cleaned
       ELSE /\ \/ SetTop(t, [Top(t) EXCEPT !.todo = Tail(@)])
               \/ Return(t)
            /\ cleaned' = Append(cleaned, Done("callback", Head(Top(t).todo)))
    /\ UNCHANGED <<_called, _lock, _event, _callbacks, signals>>
    /\ UNCHANGED restVars

\* for name, fn in callbacks: fn() is called, what it raises is logged
ShutdownCall(t) ==
    /\ Top(t).op = "shutdown"
    /\ Top(t).pc = "calling"
    /\ IF Top(t).todo = <<>>
       THEN Goto(t, "procs") /\ UNCHANGED cleaned
       ELSE /\ SetTop(t, [Top(t) EXCEPT !.todo = Tail(@)])
            /\ cleaned' = Append(cleaned, Done("callback", Head(Top(t).todo)))
    /\ UNCHANGED <<_called, _lock, _event, _callbacks, signals>>
    /\ UNCHANGED restVars

\* self._event.set(), and shutdown() returns
ShutdownSetEvent(t) ==
    /\ Top(t).op = "shutdown"
    /\ Top(t).pc = "event"
    /\ _event' = TRUE
    /\ Return(t)
    /\ UNCHANGED <<_called, _lock, _callbacks, signals, cleaned>>
    /\ UNCHANGED restVars

NextShutdown ==
    \/ \E t \in ShutThreads : RegisterLock(t)
    \/ \E t \in ShutThreads : RegisterAppend(t)
    \/ \E t \in ShutThreads : Wait(t)
    \/ \E t \in ShutThreads : AtExit(t)
    \/ Signal
    \/ \E t \in ShutThreads : shutdown_route(t)
    \/ \E t \in ShutThreads : ShutdownEnter(t)
    \/ \E t \in ShutThreads : ShutdownTest(t)
    \/ \E t \in ShutThreads : ShutdownLock(t)
    \/ \E t \in ShutThreads : ShutdownCopy(t)
    \/ \E t \in ShutThreads : ShutdownCall(t)
    \/ \E t \in ShutThreads : ShutdownSetEvent(t)

SrvInit(sc) ==
    /\ scope = sc
    /\ project_root = ""
    /\ goal = ""
    /\ plan = NoPlan
    /\ diffs = NoEntries(NoDiff)
    /\ refined_diffs = NoEntries(NoDiff)
    /\ reviews = NoEntries(NoReview)
    /\ final_prompt = NoPrompt
    /\ active_step_id = NoStep
    /\ flash = NoFlash
    /\ bg_running = FALSE
    /\ workers = {}
    /\ produced = 0
    /\ patchFiles = NoEntries(NoDiff)
    /\ refinedFiles = NoEntries(NoDiff)
    /\ finalFile = NoPrompt
    /\ ShutInit

(***************************************************************************)
(* The applier as a state machine: a patch file is written, then           *)
(* apply_patch is called on it once                                        *)
(***************************************************************************)
SanIdle == /\ sanIn = <<>>
           /\ sanPieces = 0
           /\ sanOut = NoText
           /\ sanOut2 = NoText
           /\ extOut = NoResult

InitApply ==
    /\ fs \in InitTrees
    /\ fsPre = fs
    /\ patchSecs = <<>>
    /\ patchText = NoText
    /\ result = NoResult
    /\ SanIdle
    /\ SrvInit(PlanScope)

\* save_patch(step_id, patch_content): the patch file is written
WritePatch(pi) ==
    /\ patchText = NoText
    /\ result = NoResult
    /\ patchSecs' = pi
    /\ patchText' = PatchFileText(pi)
    /\ UNCHANGED <<fs, fsPre, result>>
    /\ UNCHANGED <<sanVars, srvVars>>

\* apply_patch(patch_file)
ApplyPatch(in_repo, dry_ok, real_ok) ==
    /\ result = NoResult
    /\ LET r == apply_patch(fs, patchText, in_repo, dry_ok, real_ok)
       IN  /\ result' = r
           /\ fs' = r.fs
    /\ fsPre' = fs
    /\ UNCHANGED <<patchSecs, patchText>>
    /\ UNCHANGED <<sanVars, srvVars>>

NextApply ==
    \/ \E pi \in PatchInputs : WritePatch(pi)
    \/ \E in_repo \in BOOLEAN, dry_ok \in BOOLEAN, real_ok \in BOOLEAN :
           ApplyPatch(in_repo, dry_ok, real_ok)

SpecApply == InitApply /\ [][NextApply]_vars

(***************************************************************************)
(* The sanitizer as a state machine: a diff text is put together piece by  *)
(* piece, sanitized, and the result sanitized again                        *)
(***************************************************************************)
MaxSanPieces == 3     \* largest number of pieces of a generated diff text

\* line contents: empty, context, remove, add, two hunk headers, file header
SanLineKinds == {
    <<>>,
    <<" ", "a">>,
    <<"-", "b">>,
    <<"+", "c">>,
    <<"@", "@", " ", "-", "1", ",", "9", " ", "+", "1", ",", "9", " ", "@", "@">>,
    <<"@", "@", " ", "-", "2", " ", "+", "2", " ", "@", "@", " ", "f">>,
    <<"-", "-", "-", " ", "a", "/", "A">>,
    <<"d", "i", "f", "f", " ", "-", "-", "g", "i", "t", " ", "a", "/", "A", " ", "b", "/", "A">> }

SanTerminators == {<<"\n">>, <<"\r", "\n">>}

ApplyIdle ==
    /\ fs = (PathA :> FileA0) @@ (PathB :> FileB0)
    /\ fsPre = fs
    /\ patchSecs = <<>>
    /\ patchText = NoText
    /\ result = NoResult

InitSanitize ==
    /\ ApplyIdle
    /\ SrvInit(PlanScope)
    /\ SanIdle

\* the text generator or the user supplies one more line of the diff
AppendPiece(line, term) ==
    /\ sanOut = NoText
    /\ sanPieces < MaxSanPieces
    /\ sanIn' = sanIn \o line \o term
    /\ sanPieces' = sanPieces + 1
    /\ UNCHANGED <<sanOut, sanOut2, extOut>>
    /\ UNCHANGED <<applyVars, srvVars>>

\* clean = _sanitize_diff(extracted)
Sanitize ==
    /\ sanOut = NoText
    /\ sanOut' = _sanitize_diff(sanIn)
    /\ UNCHANGED <<sanIn, sanPieces, sanOut2, extOut>>
    /\ UNCHANGED <<applyVars, srvVars>>

\* the stored diff is sanitized once more (it is pasted back or refined)
SanitizeAgain ==
    /\ sanOut # NoText
    /\ sanOut2 = NoText
    /\ sanOut2' = _sanitize_diff(sanOut)
    /\ UNCHANGED <<sanIn, sanPieces, sanOut, extOut>>
    /\ UNCHANGED <<applyVars, srvVars>>

NextSanitize ==
    \/ \E line \in SanLineKinds, term \in SanTerminators : AppendPiece(line, term)
    \/ Sanitize
    \/ SanitizeAgain

SpecSanitize == InitSanitize /\ [][NextSanitize]_vars

(***************************************************************************)
(* The extractor as a state machine: the generator's answer is put         *)
(* together line by line, then generate_patch_local extracts the diff from *)
(* it and sanitizes what it extracted                                      *)
(***************************************************************************)
MaxRawPieces == 4     \* largest number of lines of a generated answer

\* lines of an answer: prose, a fence, a fence naming a language, the two
\* header lines, a "---" line without a path, the one-dash header, a hunk
\* header and an added line
RawLineKinds == {
    <<"p">>,
    <<"~", "~", "~">>,
    <<"~", "~", "~", "d">>,
    <<"-", "-", "-", " ", "a", "/", "A">>,
    <<"+", "+", "+", " ", "b", "/", "A">>,
    <<"-", "-", "-">>,
    <<"-", " ", "a", "/", "A">>,
    <<"@", "@", " ", "-", "1", ",", "0", " ", "+", "1", ",", "1", " ", "@", "@">>,
    <<"+", "c">> }

\* the generator writes one more line of its answer
AppendRaw(line) ==
    /\ extOut = NoResult
    /\ sanPieces < MaxRawPieces
    /\ sanIn' = sanIn \o line \o <<"\n">>
    /\ sanPieces' = sanPieces + 1
    /\ UNCHANGED <<sanOut, sanOut2, extOut>>
    /\ UNCHANGED <<applyVars, srvVars>>

\* generate_patch_local from "extracted = _extract_diff(text)" on
ExtractDiff ==
    /\ extOut = NoResult
    /\ extOut' = _extract_diff(sanIn)
    /\ sanOut' = IF _extract_diff(sanIn).found
                 THEN _sanitize_diff(_extract_diff(sanIn).text) ELSE NoText
    /\ UNCHANGED <<sanIn, sanPieces, sanOut2>>
    /\ UNCHANGED <<applyVars, srvVars>>

NextExtract ==
    \/ \E line \in RawLineKinds : AppendRaw(line)
    \/ ExtractDiff

SpecExtract == InitSanitize /\ [][NextExtract]_vars

(***************************************************************************)
(* The GUI server as a state machine.  The server run_server makes handles *)
(* one request at a time, so a route is one step.  A background thread is  *)
(* one step per stretch between two collaborator calls, and these steps    *)
(* interleave with the routes.  No route and no thread touches the working *)
(* tree or calls apply_patch.                                              *)
(***************************************************************************)
Init ==
    /\ ApplyIdle
    /\ SanIdle
    /\ SrvInit(PlanScope)

\* _flash(error=...); return redirect(...): the request changes nothing else
Reject(error) ==
    /\ flash' = _flash("", error)
    /\ UNCHANGED <<project_root, goal, diffs, refined_diffs, reviews, final_prompt,
                   active_step_id, bg_running, diskVars, workers, produced>>

\* finally: _state["bg_running"] = False, and the thread ends
FinishHeld(w) ==
    /\ workers' = workers \ {w}
    /\ bg_running' = bg_running

Finish(w) ==
    /\ workers' = workers \ {w}
    /\ bg_running' = FALSE

Replace(w, v) == workers' = (workers \ {w}) \cup {v}

\* POST /set-folder, with the path of an existing folder
set_folder ==
    /\ project_root' = "P"
    /\ goal' = ""
    /\ diffs' = NoEntries(NoDiff)
    /\ refined_diffs' = NoEntries(NoDiff)
    /\ reviews' = NoEntries(NoReview)
    /\ final_prompt' = NoPrompt
    /\ active_step_id' = NoStep
    /\ flash' = _flash(Ok, "")
    /\ UNCHANGED <<bg_running, diskVars, workers, produced>>
    /\ UNCHANGED <<applyVars, sanVars, scope, shutVars>>

\* POST /goal
set_goal ==
    /\ goal' = "g"
    /\ flash' = _flash(Ok, "")
    /\ UNCHANGED <<project_root, diffs, refined_diffs, reviews, final_prompt,
                   active_step_id, bg_running, diskVars, workers, produced>>
    /\ UNCHANGED <<applyVars, sanVars, scope, shutVars>>

\* POST /save-plan, with a well-formed plan pasted
save_plan_route ==
    /\ plan' = NewPlan
    /\ active_step_id' = NewPlan.steps[1].id
    /\ flash' = _flash(Ok, "")
    /\ UNCHANGED <<project_root, goal, diffs, refined_diffs, reviews, final_prompt,
                   bg_running, patchFiles, refinedFiles, finalFile, workers, produced>>
    /\ UNCHANGED <<applyVars, sanVars, scope, shutVars>>

\* POST /select-step/<step_id>
select_step(step_id) ==
    /\ active_step_id' = step_id
    /\ UNCHANGED <<project_root, goal, diffs, refined_diffs, reviews, final_prompt,
                   flash, bg_running, diskVars, workers, produced>>
    /\ UNCHANGED <<applyVars, sanVars, scope, shutVars>>

\* GET /: index, then _render
index ==
    /\ active_step_id' =
           IF active_step_id = NoStep /\ _first_pending_step # NoStep
           THEN _first_pending_step ELSE active_step_id
    /\ refined_diffs' = [s \in StepIds |->
           IF /\ ShownPlan.exists
              /\ Find(ShownPlan.steps, s) # 0
              /\ refined_diffs[s] = NoDiff
           THEN refinedFiles[s] ELSE refined_diffs[s]]
    /\ final_prompt' = IF final_prompt.made THEN final_prompt ELSE finalFile
    /\ UNCHANGED <<project_root, goal, diffs, reviews, flash, bg_running,
                   diskVars, workers, produced>>
    /\ UNCHANGED <<applyVars, sanVars, scope, shutVars>>

\* POST /plan-local
plan_local(form_goal) ==
    /\ LET g == IF form_goal # "" THEN form_goal ELSE goal IN
       IF g = "" THEN Reject(Invalid)
       ELSE IF bg_running THEN Reject(Busy)
       ELSE /\ goal' = g
            /\ bg_running' = TRUE
            /\ workers' = workers \cup {Worker("plan_local", "plan", NoStep)}
            /\ UNCHANGED <<project_root, diffs, refined_diffs, reviews, final_prompt,
                           active_step_id, flash, diskVars, produced>>
    /\ UNCHANGED <<applyVars, sanVars, scope, shutVars>>

\* _run of plan_local, once generate_plan_local has returned
PlanLocalReturned(w, ok) ==
    /\ w \in workers /\ w.kind = "plan_local"
    /\ IF ok
       THEN /\ plan' = NewPlan
            /\ active_step_id' = NewPlan.steps[1].id
            /\ flash' = _flash(Ok, "")
       ELSE /\ flash' = _flash("", Failed)
            /\ UNCHANGED <<plan, active_step_id>>
    /\ Finish(w)
    /\ UNCHANGED <<project_root, goal, diffs, refined_diffs, reviews, final_prompt,
                   patchFiles, refinedFiles, finalFile, produced>>
    /\ UNCHANGED <<applyVars, sanVars, scope, shutVars>>

\* POST /patch-local, were it to start its thread without looking at bg_running
patch_local_unchecked ==
    /\ IF _active_step = NoStep THEN Reject(NoActiveStep)
       ELSE /\ bg_running' = TRUE
            /\ workers' = workers \cup
                 {Worker("patch_local", "start", _active_step)}
            /\ UNCHANGED <<project_root, goal, diffs, refined_diffs, reviews,
                           final_prompt, active_step_id, flash, diskVars, produced>>
    /\ UNCHANGED <<applyVars, sanVars, scope, shutVars>>

\* POST /patch-local
patch_local ==
    /\ IF _active_step = NoStep THEN Reject(NoActiveStep)
       ELSE IF bg_running THEN Reject(Busy)
       ELSE /\ bg_running' = TRUE
            /\ workers' = workers \cup
                 {Worker("patch_local", "start", _active_step)}
            /\ UNCHANGED <<project_root, goal, diffs, refined_diffs, reviews,
                           final_prompt, active_step_id, flash, diskVars, produced>>
    /\ UNCHANGED <<applyVars, sanVars, scope, shutVars>>

\* _run of patch_local up to the call of generate_patch_local: prior_diffs
PatchLocalStarted(w) ==
    /\ w \in workers /\ w.kind = "patch_local" /\ w.pc = "start"
    /\ Replace(w, [w EXCEPT !.pc = "generate",
                            !.prior = PriorDiffs(plan, w.sid, refined_diffs, diffs, TRUE)])
    /\ UNCHANGED <<memVars, diskVars, produced>>
    /\ UNCHANGED <<applyVars, sanVars, scope, shutVars>>

\* _run of patch_local, once generate_patch_local has returned
PatchLocalGenerated(w, ok) ==
    /\ w \in workers /\ w.kind = "patch_local" /\ w.pc = "generate"
    /\ IF ok
       THEN /\ produced < scope.texts
            /\ diffs' = [diffs EXCEPT ![w.sid] = NewDiff(0)]
            /\ patchFiles' = [patchFiles EXCEPT ![w.sid] = NewDiff(0)]
            /\ produced' = produced + 1
            /\ Replace(w, [w EXCEPT !.pc = "review", !.diff = NewDiff(0)])
            /\ UNCHANGED <<flash, bg_running>>
       ELSE /\ flash' = _flash("", PatchFailed)
            /\ Finish(w)
            /\ UNCHANGED <<diffs, patchFiles, produced>>
    /\ UNCHANGED <<project_root, goal, refined_diffs, reviews, final_prompt,
                   active_step_id, plan, refinedFiles, finalFile>>
    /\ UNCHANGED <<applyVars, sanVars, scope, shutVars>>

\* _run of patch_local, once review_patch has returned
PatchLocalReviewed(w) ==
    /\ w \in workers /\ w.kind = "patch_local" /\ w.pc = "review"
    /\ reviews' = [reviews EXCEPT ![w.sid] = [of |-> w.diff.text]]
    /\ flash' = _flash(Ok, "")
    /\ Finish(w)
    /\ UNCHANGED <<project_root, goal, diffs, refined_diffs, final_prompt,
                   active_step_id, diskVars, produced>>
    /\ UNCHANGED <<applyVars, sanVars, scope, shutVars>>

\* POST /review-patch: a pasted diff is stored and reviewed in the request
review_patch_route(looks_like_diff) ==
    /\ IF _active_step = NoStep THEN Reject(NoActiveStep)
       ELSE IF ~looks_like_diff THEN Reject(Invalid)
       ELSE /\ produced < scope.texts
            /\ diffs' = [diffs EXCEPT ![_active_step] = NewDiff(0)]
            /\ patchFiles' = [patchFiles EXCEPT ![_active_step] = NewDiff(0)]
            /\ reviews' = [reviews EXCEPT ![_active_step] = [of |-> NewDiff(0).text]]
            /\ produced' = produced + 1
            /\ flash' = _flash(Ok, "")
            /\ UNCHANGED <<project_root, goal, refined_diffs, final_prompt,
                           active_step_id, bg_running, plan, refinedFiles, finalFile,
                           workers>>
    /\ UNCHANGED <<applyVars, sanVars, scope, shutVars>>

\* POST /apply-patch, were it to approve without looking for a diff
apply_patch_route_unchecked ==
    /\ IF _active_step = NoStep THEN Reject(NoActiveStep)
       ELSE /\ plan' = update_step_status(plan, _active_step, "approved")
            /\ final_prompt' = NoPrompt
            /\ active_step_id' =
                   NextActive(update_step_status(plan, _active_step, "approved"))
            /\ diffs' = Pop(diffs, _active_step, NoDiff)
            /\ reviews' = Pop(reviews, _active_step, NoReview)
            /\ flash' = _flash(Ok, "")
            /\ UNCHANGED <<project_root, goal, refined_diffs, bg_running,
                           patchFiles, refinedFiles, finalFile, workers, produced>>
    /\ UNCHANGED <<applyVars, sanVars, scope, shutVars>>

\* POST /apply-patch: the Approve button
apply_patch_route ==
    /\ IF _active_step = NoStep THEN Reject(NoActiveStep)
       ELSE IF Or(refined_diffs[_active_step], diffs[_active_step]) = NoDiff
       THEN Reject(NoDiffFound)
       ELSE /\ plan' = update_step_status(plan, _active_step, "approved")
            /\ final_prompt' = NoPrompt
            /\ active_step_id' =
                   NextActive(update_step_status(plan, _active_step, "approved"))
            /\ diffs' = Pop(diffs, _active_step, NoDiff)
            /\ reviews' = Pop(reviews, _active_step, NoReview)
            /\ flash' = _flash(Ok, "")
            /\ UNCHANGED <<project_root, goal, refined_diffs, bg_running,
                           patchFiles, refinedFiles, finalFile, workers, produced>>
    /\ UNCHANGED <<applyVars, sanVars, scope, shutVars>>

\* POST /refine-patch; the thread keeps the diff and the review it was started with
refine_patch_route ==
    /\ IF _active_step = NoStep THEN Reject(NoActiveStep)
       ELSE IF bg_running THEN Reject(Busy)
       ELSE IF diffs[_active_step] = NoDiff THEN Reject(Invalid)
       ELSE /\ bg_running' = TRUE
            /\ workers' = workers \cup
                 {[Worker("refine_patch", "refine", _active_step) EXCEPT
                      !.diff = diffs[_active_step],
                      !.review = reviews[_active_step]]}
            /\ UNCHANGED <<project_root, goal, diffs, refined_diffs, reviews,
                           final_prompt, active_step_id, flash, diskVars, produced>>
    /\ UNCHANGED <<applyVars, sanVars, scope, shutVars>>

\* _run of refine_patch_route, were it to drop the review of the step when
\* it stores the refined diff
RefineReturnedUnreviewed(w, ok) ==
    /\ w \in workers /\ w.kind = "refine_patch"
    /\ ok => produced < scope.texts
    /\ LET refined == IF ok THEN NewDiff(w.diff.draft) ELSE w.diff IN
         /\ refined_diffs' = [refined_diffs EXCEPT ![w.sid] = refined]
         /\ refinedFiles' = [refinedFiles EXCEPT ![w.sid] = refined]
    /\ produced' = IF ok THEN produced + 1 ELSE produced
    /\ reviews' = [reviews EXCEPT ![w.sid] = NoReview]
    /\ flash' = _flash(Ok, "")
    /\ Finish(w)
    /\ UNCHANGED <<project_root, goal, diffs, final_prompt, active_step_id,
                   plan, patchFiles, finalFile>>
    /\ UNCHANGED <<applyVars, sanVars, scope, shutVars>>

\* _run of refine_patch_route, once refine_patch has returned: a new text,
\* or (ok false) the diff it was given together with an error note
RefineReturned(w, ok) ==
    /\ w \in workers /\ w.kind = "refine_patch"
    /\ ok => produced < scope.texts
    /\ LET refined == IF ok THEN NewDiff(w.diff.draft) ELSE w.diff IN
         /\ refined_diffs' = [refined_diffs EXCEPT ![w.sid] = refined]
         /\ refinedFiles' = [refinedFiles EXCEPT ![w.sid] = refined]
    /\ produced' = IF ok THEN produced + 1 ELSE produced
    /\ flash' = _flash(Ok, "")
    /\ Finish(w)
    /\ UNCHANGED <<project_root, goal, diffs, reviews, final_prompt, active_step_id,
                   plan, patchFiles, finalFile>>
    /\ UNCHANGED <<applyVars, sanVars, scope, shutVars>>

\* POST /assemble-prompt
assemble_prompt ==
    /\ IF ~plan.exists THEN Reject(Invalid)
       ELSE IF ApprovedDiffs(plan, refined_diffs, diffs, TRUE) = {}
       THEN Reject(Invalid)
       ELSE /\ final_prompt' = Prompt(ApprovedDiffs(plan, refined_diffs, diffs, TRUE))
            /\ finalFile' = Prompt(ApprovedDiffs(plan, refined_diffs, diffs, TRUE))
            /\ flash' = _flash(Ok, "")
            /\ UNCHANGED <<project_root, goal, diffs, refined_diffs, reviews,
                           active_step_id, bg_running, plan, patchFiles, refinedFiles,
                           workers, produced>>
    /\ UNCHANGED <<applyVars, sanVars, scope, shutVars>>

\* POST /skip-step
skip_step ==
    /\ IF _active_step = NoStep THEN Reject(NoActiveStep)
       ELSE /\ plan' = update_step_status(plan, _active_step, "skipped")
            /\ active_step_id' =
                   NextActive(update_step_status(plan, _active_step, "skipped"))
            /\ diffs' = Pop(diffs, _active_step, NoDiff)
            /\ reviews' = Pop(reviews, _active_step, NoReview)
            /\ flash' = _flash(Ok, "")
            /\ UNCHANGED <<project_root, goal, refined_diffs, final_prompt, bg_running,
                           patchFiles, refinedFiles, finalFile, workers, produced>>
    /\ UNCHANGED <<applyVars, sanVars, scope, shutVars>>

\* POST /reset-step/<step_id>
reset_step(step_id) ==
    /\ plan' = update_step_status(plan, step_id, "pending")
    /\ active_step_id' = step_id
    /\ diffs' = Pop(diffs, step_id, NoDiff)
    /\ reviews' = Pop(reviews, step_id, NoReview)
    /\ flash' = _flash(Ok, "")
    /\ UNCHANGED <<project_root, goal, refined_diffs, final_prompt, bg_running,
                   patchFiles, refinedFiles, finalFile, workers, produced>>
    /\ UNCHANGED <<applyVars, sanVars, scope, shutVars>>

\* POST /clear-plan
clear_plan ==
    /\ plan' = NoPlan
    /\ diffs' = NoEntries(NoDiff)
    /\ refined_diffs' = NoEntries(NoDiff)
    /\ reviews' = NoEntries(NoReview)
    /\ final_prompt' = NoPrompt
    /\ active_step_id' = NoStep
    /\ goal' = ""
    /\ flash' = _flash(Ok, "")
    /\ UNCHANGED <<project_root, bg_running, patchFiles, refinedFiles, finalFile,
                   workers, produced>>
    /\ UNCHANGED <<applyVars, sanVars, scope, shutVars>>

\* ai_build.py reset [step_id], run in the project folder while the server is
\* up: one step, or (target = NoStep) every step, goes back to pending
cmd_reset(target) ==
    /\ plan.exists
    /\ target # NoStep => Find(plan.steps, target) # 0
    /\ plan' = [plan EXCEPT !.steps = [i \in 1..Len(plan.steps) |->
                   IF target = NoStep \/ plan.steps[i].id = target
                   THEN [plan.steps[i] EXCEPT !.status = "pending"]
                   ELSE plan.steps[i]]]
    /\ UNCHANGED <<memVars, patchFiles, refinedFiles, finalFile, workers, produced>>
    /\ UNCHANGED <<applyVars, sanVars, scope, shutVars>>

\* pending = [s for s in plan["steps"] if s.get("status", "pending") == "pending"]
PendingIds(steps) ==
    LET IsPending(s) == s.status = "pending"
        ps == SelectSeq(steps, IsPending)
    IN  [i \in 1..Len(ps) |-> ps[i].id]

\* POST /run-all; the thread keeps the plan and the pending list of the request
run_all ==
    /\ IF ~plan.exists THEN Reject(Invalid)
       ELSE IF bg_running THEN Reject(Busy)
       ELSE IF PendingIds(plan.steps) = <<>> THEN Reject(Invalid)
       ELSE /\ bg_running' = TRUE
            /\ workers' = workers \cup
                 {[Worker("run_all", "start", NoStep) EXCEPT
                      !.snap = plan,
                      !.todo = PendingIds(plan.steps)]}
            /\ UNCHANGED <<project_root, goal, diffs, refined_diffs, reviews,
                           final_prompt, active_step_id, flash, diskVars, produced>>
    /\ UNCHANGED <<applyVars, sanVars, scope, shutVars>>

\* _run of run_all up to the first call of generate_patch_local: prior_diffs
\* of the first pending step
RunAllStarted(w) ==
    /\ w \in workers /\ w.kind = "run_all" /\ w.pc = "start"
    /\ Replace(w, [w EXCEPT !.pc = "generate",
                            !.prior = PriorDiffs(w.snap, Head(w.todo),
                                                 refined_diffs, diffs, FALSE)])
    /\ UNCHANGED <<memVars, diskVars, produced>>
    /\ UNCHANGED <<applyVars, sanVars, scope, shutVars>>

\* _run of run_all after one pass of its loop: on to the next pending step and
\* its prior_diffs, or, after the last one, the final prompt is assembled and
\* the thread ends
RunAllAfter(w, cnt, planN, diffsN, flashN) ==
    LET rest == Tail(w.todo)
        ad   == ApprovedDiffs(planN, refined_diffs, diffsN, FALSE)
    IN  IF rest # <<>>
        THEN /\ Replace(w, [w EXCEPT !.pc = "generate", !.todo = rest, !.count = cnt,
                              !.diff = NoDiff, !.got = "", !.held = NoPlan,
                              !.prior = PriorDiffs(w.snap, Head(rest),
                                                   refined_diffs, diffsN, FALSE)])
             /\ flash' = flashN
             /\ UNCHANGED <<final_prompt, finalFile, bg_running>>
        ELSE /\ Finish(w)
             /\ flash' = _flash(Ready, "")
             /\ final_prompt' = IF ad # {} THEN Prompt(ad) ELSE final_prompt
             /\ finalFile' = IF ad # {} THEN Prompt(ad) ELSE finalFile

\* _run of run_all, once generate_patch_local has returned for the step at hand
RunAllGenerated(w, ok) ==
    /\ w \in workers /\ w.kind = "run_all" /\ w.pc = "generate"
    /\ IF ok
       THEN /\ produced < scope.texts
            /\ diffs' = [diffs EXCEPT ![Head(w.todo)] = NewDiff(0)]
            /\ patchFiles' = [patchFiles EXCEPT ![Head(w.todo)] = NewDiff(0)]
            /\ produced' = produced + 1
            /\ Replace(w, [w EXCEPT !.pc = "review", !.diff = NewDiff(0)])
            /\ UNCHANGED <<flash, bg_running, final_prompt, finalFile>>
       ELSE /\ RunAllAfter(w, w.count, plan, diffs, _flash("", Failed))
            /\ UNCHANGED <<diffs, patchFiles, produced>>
    /\ UNCHANGED <<project_root, goal, refined_diffs, reviews, active_step_id,
                   plan, refinedFiles>>
    /\ UNCHANGED <<applyVars, sanVars, scope, shutVars>>

\* how a call of review_patch ends: with a review, with a review that only
\* holds the error text of an Ollama that could not be reached or timed out,
\* or (on an empty answer) with an exception
ReviewOutcomes == {"reviewed", "unreachable", "raised"}

\* _run of run_all, once review_patch has returned: an exception ends the
\* thread in its except clause; otherwise the review is kept, whatever it
\* says, and update_step_status starts: it loads the plan file
RunAllReviewed(w, outcome) ==
    /\ w \in workers /\ w.kind = "run_all" /\ w.pc = "review"
    /\ IF outcome = "raised"
       THEN /\ flash' = _flash("", Failed)
            /\ Finish(w)
            /\ UNCHANGED reviews
       ELSE /\ reviews' = [reviews EXCEPT ![Head(w.todo)] = [of |-> w.diff.text]]
            /\ Replace(w, [w EXCEPT !.pc = "store", !.got = outcome, !.held = plan])
            /\ UNCHANGED <<flash, bg_running>>
    /\ UNCHANGED <<project_root, goal, diffs, refined_diffs, active_step_id,
                   final_prompt, diskVars, produced>>
    /\ UNCHANGED <<applyVars, sanVars, scope, shutVars>>

\* save_plan of update_step_status: the copy of the plan that p holds, with the
\* status of one step set, replaces the plan file (nothing is written when
\* there was no plan to load)
Stored(p, step_id, status) ==
    IF p.exists THEN update_step_status(p, step_id, status) ELSE plan

\* _run of run_all, once update_step_status has modified the plan it loaded:
\* the plan is written back, the step becomes the active one, the loop goes on
RunAllStored(w) ==
    /\ w \in workers /\ w.kind = "run_all" /\ w.pc = "store"
    /\ plan' = Stored(w.held, Head(w.todo), "approved")
    /\ active_step_id' = Head(w.todo)
    /\ RunAllAfter(w, w.count + 1, Stored(w.held, Head(w.todo), "approved"),
                   diffs, flash)
    /\ UNCHANGED <<project_root, goal, diffs, refined_diffs, reviews, patchFiles,
                   refinedFiles, produced>>
    /\ UNCHANGED <<applyVars, sanVars, scope, shutVars>>

\* what the local models answer in the run: a call succeeds or fails, a
\* review is made, is unreachable or raises; a model that the scope of the run
\* does not let fail always answers
Answers(model) == IF model \in scope.fails THEN BOOLEAN ELSE {TRUE}

Verdicts == IF "reviewer" \in scope.fails THEN ReviewOutcomes ELSE {"reviewed"}

Next ==
    \/ set_folder
    \/ set_goal
    \/ save_plan_route
    \/ \E step_id \in scope.ids : select_step(step_id)
    \/ index
    \/ \E form_goal \in {"", "g"} : plan_local(form_goal)
    \/ \E w \in workers, ok \in Answers("planner") : PlanLocalReturned(w, ok)
    \/ patch_local
    \/ \E w \in workers : PatchLocalStarted(w)
    \/ \E w \in workers, ok \in Answers("patcher") : PatchLocalGenerated(w, ok)
    \/ \E w \in workers : PatchLocalReviewed(w)
    \/ \E looks_like_diff \in BOOLEAN : review_patch_route(looks_like_diff)
    \/ apply_patch_route
    \/ refine_patch_route
    \/ \E w \in workers, ok \in Answers("refiner") : RefineReturned(w, ok)
    \/ assemble_prompt
    \/ skip_step
    \/ \E step_id \in scope.ids : reset_step(step_id)
    \/ clear_plan
    \/ \E target \in scope.ids \cup {NoStep} : cmd_reset(target)
    \/ run_all
    \/ \E w \in workers : RunAllStarted(w)
    \/ \E w \in workers, ok \in Answers("patcher") : RunAllGenerated(w, ok)
    \/ \E w \in workers, outcome \in Verdicts : RunAllReviewed(w, outcome)
    \/ \E w \in workers : RunAllStored(w)

Spec == Init /\ [][Next]_vars

\* the same server over a plan of one step, with more diff texts to come
InitDrafts ==
    /\ ApplyIdle
    /\ SanIdle
    /\ SrvInit(DraftsScope)

SpecDrafts == InitDrafts /\ [][Next]_vars

\* the same server over a pasted plan whose steps are not in the order of
\* their ids
InitOrder ==
    /\ ApplyIdle
    /\ SanIdle
    /\ SrvInit(OrderScope)

SpecOrder == InitOrder /\ [][Next]_vars

\* the same server with two diff texts over the two-step plan, for a user
\* who picks a folder, pastes a plan, pastes and approves diffs, runs the
\* batch and assembles
InitBatch ==
    /\ ApplyIdle
    /\ SanIdle
    /\ SrvInit(BatchScope)

NextBatch ==
    \/ set_folder
    \/ save_plan_route
    \/ \E looks_like_diff \in BOOLEAN : review_patch_route(looks_like_diff)
    \/ apply_patch_route
    \/ assemble_prompt
    \/ run_all
    \/ \E w \in workers : RunAllStarted(w)
    \/ \E w \in workers, ok \in Answers("patcher") : RunAllGenerated(w, ok)
    \/ \E w \in workers, outcome \in Verdicts : RunAllReviewed(w, outcome)
    \/ \E w \in workers : RunAllStored(w)

SpecBatch == InitBatch /\ [][NextBatch]_vars

(***************************************************************************)
(* executor.py: the command-line run over the same plan file               *)
(***************************************************************************)
CliScope == [plan |-> TwoSteps, texts |-> MaxDrafts, ids |-> IdsOf(TwoSteps),
             fails |-> Models]

\* cmd_run is run_all_steps(resume=False), cmd_resume run_all_steps(resume=True)
CliKinds == {"run", "resume"}

\* what the user pastes at the prompt: nothing, a text that is no diff, a diff
Pastes == {"empty", "prose", "diff"}

StepIdSeq(p) == [i \in 1..Len(p.steps) |-> p.steps[i].id]

\* _get_status: the counters of the status bar of the GUI
CountStatus(p, status) ==
    Cardinality({i \in 1..Len(p.steps) : p.steps[i].status = status})

_get_status(p) ==
    [total    |-> Len(p.steps),
     approved |-> CountStatus(p, "approved"),
     skipped  |-> CountStatus(p, "skipped"),
     failed   |-> CountStatus(p, "failed"),
     pending  |-> Len(p.steps) - CountStatus(p, "approved")
                     - CountStatus(p, "skipped") - CountStatus(p, "failed")]

\* cmd_plan: generate_plan stores the pasted steps, every status set to pending
cmd_plan ==
    /\ plan' = NewPlan
    /\ UNCHANGED <<memVars, patchFiles, refinedFiles, finalFile, workers, produced>>
    /\ UNCHANGED <<applyVars, sanVars, scope, shutVars>>

\* run_all_steps(resume): the plan is loaded once, the loop runs on that copy
run_all_steps(kind) ==
    /\ plan.exists
    /\ ~\E w \in workers : w.kind \in CliKinds
    /\ workers' = workers \cup
         {[Worker(kind, "step", NoStep) EXCEPT !.snap = plan, !.todo = StepIdSeq(plan)]}
    /\ UNCHANGED <<memVars, diskVars, produced>>
    /\ UNCHANGED <<applyVars, sanVars, scope, shutVars>>

\* the head of the for loop: the run ends, or the step is passed over, or its
\* while loop starts
CliStep(w) ==
    /\ w.kind \in CliKinds
    /\ w.pc = "step"
    /\ IF w.todo = <<>> THEN workers' = workers \ {w}
       ELSE IF \/ w.kind = "resume" /\ StatusOf(w.snap, Head(w.todo)) = "applied"
               \/ StatusOf(w.snap, Head(w.todo)) = "skipped"
       THEN Replace(w, [w EXCEPT !.todo = Tail(w.todo)])
       ELSE Replace(w, [w EXCEPT !.pc = "paste", !.sid = Head(w.todo), !.count = 0,
                                 !.diff = NoDiff, !.review = NoReview])
    /\ UNCHANGED <<memVars, diskVars, produced>>
    /\ UNCHANGED <<applyVars, sanVars, scope, shutVars>>

\* the step is left with the given status and the for loop goes on
CliLeave(w, status) ==
    /\ plan' = update_step_status(plan, w.sid, status)
    /\ Replace(w, [w EXCEPT !.pc = "step", !.todo = Tail(w.todo)])

\* _collect_patch_from_user returned.  count is 0 until the first attempt was
\* made (attempt > 0 is all the code asks of the counter).
CliPasted(w, pasted, choice) ==
    /\ w.kind \in CliKinds
    /\ w.pc = "paste"
    /\ IF pasted # "diff"
       THEN /\ IF choice = "S" THEN CliLeave(w, "skipped")
               ELSE /\ Replace(w, [w EXCEPT !.count = 1])
                    /\ UNCHANGED plan
            /\ UNCHANGED <<patchFiles, produced>>
       ELSE /\ produced < scope.texts
            /\ patchFiles' = [patchFiles EXCEPT ![w.sid] = RawDiff(0)]
            /\ Replace(w, [w EXCEPT !.pc = "ask", !.count = 1, !.diff = RawDiff(0),
                                    !.review = [of |-> RawDiff(0).text]])
            /\ produced' = produced + 1
            /\ UNCHANGED plan
    /\ UNCHANGED <<memVars, refinedFiles, finalFile>>
    /\ UNCHANGED <<applyVars, sanVars, scope, shutVars>>

\* show_step_and_ask returned: apply (apply_patch succeeds or not, and the
\* user retries or not), skip or retry
CliAnswered(w, action, success, retry) ==
    /\ w.kind \in CliKinds
    /\ w.pc = "ask"
    /\ IF action = "apply" /\ success THEN CliLeave(w, "applied")
       ELSE IF action = "apply" /\ ~retry THEN CliLeave(w, "failed")
       ELSE IF action = "skip" THEN CliLeave(w, "skipped")
       ELSE /\ Replace(w, [w EXCEPT !.pc = "paste"])
            /\ UNCHANGED plan
    /\ UNCHANGED <<memVars, patchFiles, refinedFiles, finalFile, produced>>
    /\ UNCHANGED <<applyVars, sanVars, scope, shutVars>>

NextCli ==
    \/ cmd_plan
    \/ \E kind \in CliKinds : run_all_steps(kind)
    \/ \E w \in workers : CliStep(w)
    \/ \E w \in workers, pasted \in Pastes, choice \in {"S", "T"} :
           CliPasted(w, pasted, choice)
    \/ \E w \in workers, action \in {"apply", "skip", "retry"},
          success \in BOOLEAN, retry \in BOOLEAN :
           CliAnswered(w, action, success, retry)
    \/ \E target \in scope.ids \cup {NoStep} : cmd_reset(target)

InitCli ==
    /\ ApplyIdle
    /\ SanIdle
    /\ SrvInit(CliScope)

SpecCli == InitCli /\ [][NextCli]_vars

\* the ShutdownManager alone, with the threads that call it
InitShutdown ==
    /\ ApplyIdle
    /\ SanIdle
    /\ SrvInit(PlanScope)

SpecShutdown == InitShutdown /\ [][NextShutdown]_vars

(***************************************************************************)
(* Properties of the GUI server                                            *)
(***************************************************************************)
\* a request to start one of the four background jobs
JobRequest ==
    \/ \E form_goal \in {"", "g"} : plan_local(form_goal)
    \/ patch_local
    \/ refine_patch_route
    \/ run_all

\* C1: at most one background job (plan-local, patch-local, refine-patch,
\* run-all) is in flight at any time; a job request that arrives while a job
\* runs is answered with an error and starts no thread; and a thread starts
\* only in the step of a job request made while none runs, never later on
\* behalf of a refused one.
C1_SingleBackgroundJob ==
    [][ /\ Cardinality(workers') <= 1
        /\ (workers # {} /\ JobRequest) =>
               /\ workers' = workers
               /\ flash'.error # ""
        /\ (Threads(workers') \ Threads(workers) # {}) =>
               (workers = {} /\ JobRequest) ]_vars

\* a job runs and the last request was refused because of it
C1_Witness ==
    /\ workers # {}
    /\ bg_running
    /\ flash.error = Busy

\* C2: a step has status approved only after apply_patch has applied its
\* diff to the working tree successfully.
C2_ApprovedOnlyAfterApply ==
    \A sid \in StepIds :
        StatusOf(plan, sid) = "approved" =>
            /\ result # NoResult
            /\ result.success

\* the active step has neither a draft nor a refined diff
NoWorkingDiff ==
    /\ _active_step # NoStep
    /\ diffs[_active_step] = NoDiff
    /\ refined_diffs[_active_step] = NoDiff

\* C3: approve on a step that has neither a draft nor a refined diff is
\* refused with the "no diff" error; the plan (so the step's status) and the
\* active-step pointer are as before.
C3_ApproveWithoutDiffRefused ==
    [][ (NoWorkingDiff /\ apply_patch_route) =>
            /\ flash'.error = NoDiffFound
            /\ plan' = plan
            /\ active_step_id' = active_step_id ]_vars

\* approve was refused for want of a diff, the step is still pending and active
C3_Witness ==
    /\ flash.error = NoDiffFound
    /\ NoWorkingDiff
    /\ StatusOf(plan, _active_step) = "pending"

(***************************************************************************)
(* Properties of the applier                                               *)
(***************************************************************************)
InSeq(x, sq) == \E k \in 1..Len(sq) : sq[k] = x

\* content of path p in a tree, NoText when the file does not exist
FileOf(tree, p) == IF p \in DOMAIN tree THEN tree[p] ELSE NoText

\* number of lines the target of edit e had before the call
LinesBefore(e) == Len(readlines(IF e.path \in DOMAIN fsPre THEN fsPre[e.path] ELSE <<>>))

\* the algorithmic applier has run on the current patch
PyApplied == result # NoResult /\ result.kind = "python"

Edits == patchSecs.secs

\* the outcome of edit e when it is the only edit of the patch
Alone(e) == _apply_patch_python(fsPre, EditText(e, patchSecs.git))

\* C4: patch application is per-file atomic and files are independent: every
\* file of the patch either has all of its hunks applied, exactly as if it
\* were patched alone, or is left as it was and reported as errored, whatever
\* happens to the other files of the patch.
C4_PerFileAtomic ==
    PyApplied =>
        \A k \in 1..Len(Edits) :
            LET e == Edits[k]
            IN  e.kind # "delete" =>
                    IF Alone(e).errors # <<>>
                    THEN /\ FileOf(fs, e.path) = FileOf(fsPre, e.path)
                         /\ InSeq(e.path, result.errors)
                    ELSE FileOf(fs, e.path) = FileOf(Alone(e).fs, e.path)

\* a hunk whose start line lies beyond the target, or whose context and
\* remove lines reach beyond the end of a target of n lines
OutOfRange(h, n) == h.start - 1 > n \/ h.start - 1 + OrigCount(h.body) > n

\* C5: when a hunk's start line is out of range for the target file, or the
\* cursor runs past the end of the original content on a context or remove
\* line, an error is recorded for the file and its content is unchanged
\* (stated for patches of one file, whose block is the whole patch).
C5_OutOfRangeIsError ==
    (PyApplied /\ Len(Edits) = 1 /\ Edits[1].kind # "delete") =>
        LET e == Edits[1]
        IN  (\E k \in 1..Len(e.hunks) : OutOfRange(e.hunks[k], LinesBefore(e))) =>
                /\ InSeq(e.path, result.errors)
                /\ FileOf(fs, e.path) = FileOf(fsPre, e.path)

\* every hunk of edit e lies within the target as it was before the call
InRange(e) ==
    \A k \in 1..Len(e.hunks) :
        /\ e.hunks[k].start >= 1
        /\ ~OutOfRange(e.hunks[k], LinesBefore(e))

\* C6: the applier reports success if and only if at least one file was
\* changed and the error list is empty, and every file whose content changed
\* is among the changed files; a two-file patch whose first file's hunks are
\* valid and whose second file's hunk starts beyond the end of that file gives
\* changedFiles = [first], errors = [second], success = false.
C6_SuccessIffChangedNoErrors ==
    PyApplied =>
        /\ result.success <=> (result.applied # <<>> /\ result.errors = <<>>)
        /\ \A p \in DOMAIN fs :
               FileOf(fs, p) # FileOf(fsPre, p) => InSeq(p, result.applied)
        /\ ( /\ Len(Edits) = 2
             /\ Edits[1].kind # "delete" /\ Edits[2].kind # "delete"
             /\ InRange(Edits[1])
             /\ Edits[2].hunks[1].start - 1 > LinesBefore(Edits[2]) ) =>
               /\ result.applied = <<Edits[1].path>>
               /\ result.errors = <<Edits[2].path>>
               /\ ~result.success

NonEmptyBlock(b) == Strip(b) # <<>>

HeaderLine(l) == StartsWith(l, MINUS_HDR) \/ StartsWith(l, PLUS_HDR)

\* C7: a patch with several file header pairs is split into one block per
\* file, and no header line of a later file is taken as a body line of a hunk
\* of the previous file.
C7_OneBlockPerFile ==
    PyApplied =>
        LET blocks == SelectSeq(file_blocks(NormalizeNewlines(patchText)), NonEmptyBlock)
        IN  /\ Len(blocks) = Len(Edits)
            /\ \A k \in 1..Len(blocks) :
                   LET hs == FindHunks(Strip(blocks[k]), 1)
                   IN  \A i \in 1..Len(hs) :
                           LET ls == splitlines(hs[i].body, FALSE)
                           IN  \A j \in 1..Len(ls) : ~HeaderLine(ls[j])

\* what the hunk body makes of `orig` from 0-based cursor pos on: the lines
\* it emits (add: the patch text, context: the original line) and the cursor
\* after it
RECURSIVE RefBody(_, _, _)
RefBody(bls, orig, st) ==
    IF bls = <<>> THEN st
    ELSE LET bl == Head(bls)
         IN  IF bl[1] = "+"
             THEN RefBody(Tail(bls), orig, [st EXCEPT !.out = Append(@, Tail(bl))])
             ELSE IF bl[1] = "-"
             THEN RefBody(Tail(bls), orig, [st EXCEPT !.pos = @ + 1])
             ELSE RefBody(Tail(bls), orig,
                          [out |-> Append(st.out, orig[st.pos + 1]), pos |-> st.pos + 1])

\* the lines a single in-range hunk h makes of the lines `orig`
RefApply(h, orig) ==
    LET before == SubSeq(orig, 1, Max(h.start - 1, 0))
        st     == RefBody(splitlines(h.body, FALSE), orig,
                          [out |-> before, pos |-> Max(h.start - 1, 0)])
    IN  st.out \o SubSeq(orig, st.pos + 1, Len(orig))

OneHunkEdit ==
    /\ Len(Edits) = 1
    /\ Edits[1].kind # "delete"
    /\ Len(Edits[1].hunks) = 1

\* C8: the lines before the hunk's start are copied, the body is
\* interpreted line by line, the remaining lines are copied after it (for a
\* single hunk that is in range, with any start line from 0 upward).
C8_HunkSemantics ==
    (PyApplied /\ OneHunkEdit /\ ~OutOfRange(Edits[1].hunks[1], LinesBefore(Edits[1]))) =>
        LET e    == Edits[1]
            orig == splitlines(IF e.path \in DOMAIN fsPre THEN fsPre[e.path] ELSE <<>>, FALSE)
        IN  /\ e.path \in DOMAIN fs
            /\ splitlines(fs[e.path], FALSE) = RefApply(e.hunks[1], orig)

HasChar(t, c) == \E k \in 1..Len(t) : t[k] = c

\* C9: a patch whose @@ start line is in range succeeds whether or not its
\* context lines match the file, also after the strict tool rejected it, and
\* a context line puts the file's own line into the result, never the text
\* the patch carries for it ("z" stands in no file and in no added line).
C9_PositionalTrust ==
    (PyApplied /\ OneHunkEdit /\ Edits[1].hunks[1].start >= 1
        /\ ~OutOfRange(Edits[1].hunks[1], LinesBefore(Edits[1]))) =>
            /\ result.success
            /\ result.applied = <<Edits[1].path>>
            /\ ~HasChar(fs[Edits[1].path], "z")

\* the strict tool's check failed on a patch whose context does not match,
\* and the fallback applied it
C9_Witness ==
    /\ PyApplied
    /\ OneHunkEdit
    /\ result.trail = <<"check", "python">>
    /\ HasChar(Edits[1].hunks[1].body, "z")
    /\ Edits[1].hunks[1].start = 2
    /\ result.success
    /\ fs[Edits[1].path] # fsPre[Edits[1].path]

(***************************************************************************)
(* Properties of the sanitizer                                             *)
(***************************************************************************)
\* C10: sanitizing is idempotent: sanitize(sanitize(D)) = sanitize(D).
C10_SanitizeIdempotent == sanOut2 # NoText => sanOut2 = sanOut

\* the counts a hunk header declares (a count left out stands for 1)
HeaderCounts(l) ==
    LET q1 == AfterDigits(l, 5)
        q2 == AfterCount(l, q1)
        q3 == AfterDigits(l, q2 + 2)
        q4 == AfterCount(l, q3)
    IN  [orig |-> IF q2 > q1 THEN ToInt(SubSeq(l, q1 + 1, q2 - 1)) ELSE 1,
         new  |-> IF q4 > q3 THEN ToInt(SubSeq(l, q3 + 1, q4 - 1)) ELSE 1]

\* a line that starts the next file of a diff
FileHeaderLine(l) == StartsWith(l, MINUS_HDR) \/ StartsWith(l, DIFF_GIT)

\* the lines of the sanitized text
SanOutLines == splitlines(sanOut, FALSE)

\* the index of the line that ends the body of the hunk opened at line i
HunkBodyEnd(ls, i) ==
    MinOf({k \in (i + 1)..Len(ls) : StartsWith(ls[k], HUNK_MARK) \/ FileHeaderLine(ls[k])}
          \cup {Len(ls) + 1})

\* the number of lines i+1 .. j-1 of ls that start with one of marks
PrefixCount(ls, i, j, marks) ==
    Cardinality({k \in (i + 1)..(j - 1) : ls[k] # <<>> /\ ls[k][1] \in marks})

\* C11: after sanitizing, every hunk header declares as origCount the number
\* of its body lines that start with a space or "-", and as newCount the
\* number that start with a space or "+"; the body of a hunk is every line
\* after its @@ line up to the next @@ line or the next file header.
C11_CountsMatchBody ==
    sanOut # NoText =>
        \A i \in 1..Len(SanOutLines) :
            SanHeader(SanOutLines[i]).ok =>
                /\ HeaderCounts(SanOutLines[i]).orig =
                       PrefixCount(SanOutLines, i, HunkBodyEnd(SanOutLines, i), {" ", "-"})
                /\ HeaderCounts(SanOutLines[i]).new =
                       PrefixCount(SanOutLines, i, HunkBodyEnd(SanOutLines, i), {" ", "+"})

\* a header that declared 9 and 9 was rewritten to the counts of a body of
\* one context line and one added line
C11_Witness ==
    /\ sanOut # NoText
    /\ \E i \in 1..Len(SanOutLines) :
          /\ SanHeader(SanOutLines[i]).ok
          /\ HeaderCounts(SanOutLines[i]) = [orig |-> 1, new |-> 2]
          /\ HunkBodyEnd(SanOutLines, i) = i + 3

(***************************************************************************)
(* Properties of the extractor                                             *)
(***************************************************************************)
\* the lines of the generator's answer, line ends kept
RawLines == splitlines(sanIn, TRUE)

\* the first line of a header pair: a "--- " line with a path in it,
\* immediately followed by a "+++ " line with a path in it
HeaderPairAt(ls, i) ==
    /\ i < Len(ls)
    /\ PairLine(RStripEol(ls[i]), "-")
    /\ PairLine(RStripEol(ls[i + 1]), "+")

\* no line of the answer is the one-dash header the extractor repairs
NothingToRepair == \A i \in 1..Len(RawLines) : ~DashHeader(RStripEol(RawLines[i]))

\* C12: applied to a text that holds a diff wrapped in prose or fences, the
\* extractor returns the text from the first line of the first adjacent
\* header pair on, unchanged; applied to a text without an adjacent header
\* pair it reports that there is no diff.
C12_ExtractFromFirstPair ==
    (extOut # NoResult /\ NothingToRepair) =>
        IF \E i \in 1..Len(RawLines) : HeaderPairAt(RawLines, i)
        THEN /\ extOut.found
             /\ extOut.text =
                   Concat(SubSeq(RawLines,
                                 MinOf({i \in 1..Len(RawLines) : HeaderPairAt(RawLines, i)}),
                                 Len(RawLines)))
        ELSE ~extOut.found

(***************************************************************************)
(* Properties of the step pipeline of the GUI server                       *)
(***************************************************************************)
\* generating a draft for step sid completes in this step: the patch-local
\* thread stores the review of the draft it generated, which is still the
\* step's draft, or a pasted draft is stored and reviewed
DraftCompleted(sid) ==
    \/ \E w \in workers : /\ w.sid = sid
                          /\ diffs[sid] = w.diff
                          /\ PatchLocalReviewed(w)
    \/ /\ _active_step = sid
       /\ review_patch_route(TRUE)
       /\ diffs'[sid] # diffs[sid]

\* C13: when generating a draft for a step completes, the review attached to
\* the step is the review of the step's draft and the refined diff attached
\* to it, if any, was made from that draft: nothing made for an earlier draft
\* of the step is left.
C13_OneLiveTriple ==
    [][ \A sid \in StepIds : DraftCompleted(sid) =>
            /\ reviews'[sid] # NoReview => reviews'[sid].of = diffs'[sid].text
            /\ refined_diffs'[sid] # NoDiff =>
                   refined_diffs'[sid].draft = diffs'[sid].text ]_vars

\* C14: skipping a step gives it status skipped and discards its draft, its
\* review and its refined diff.
C14_SkipDiscardsArtifacts ==
    [][ \A sid \in StepIds : (_active_step = sid /\ skip_step) =>
            /\ StatusOf(plan', sid) = "skipped"
            /\ diffs'[sid] = NoDiff
            /\ reviews'[sid] = NoReview
            /\ refined_diffs'[sid] = NoDiff ]_vars

\* C15: reset takes a step from any status back to pending and clears its
\* draft, its review and its refined diff: in the GUI the entries of the
\* session, on the command line the patch files.
C15_ResetClearsArtifacts ==
    [][ \A sid \in StepIds :
          /\ (StatusOf(plan, sid) # "none" /\ reset_step(sid)) =>
                /\ StatusOf(plan', sid) = "pending"
                /\ diffs'[sid] = NoDiff
                /\ reviews'[sid] = NoReview
                /\ refined_diffs'[sid] = NoDiff
          /\ cmd_reset(sid) =>
                /\ StatusOf(plan', sid) = "pending"
                /\ patchFiles'[sid] = NoDiff
                /\ refinedFiles'[sid] = NoDiff ]_vars

\* the diff a consumer took for a step is the step's refined diff when the
\* session has one, and the refined patch file when the session has neither
\* a refined diff nor a draft for the step and it turns to the files
TookRefined(pr) ==
    /\ refined_diffs[pr[1]] # NoDiff => pr[2] = refined_diffs[pr[1]]
    /\ ( /\ refined_diffs[pr[1]] = NoDiff
         /\ diffs[pr[1]] = NoDiff
         /\ refinedFiles[pr[1]] # NoDiff ) => pr[2] = refinedFiles[pr[1]]

\* a thread goes on to a call of generate_patch_local in this step
BuildsPriorDiffs(w) ==
    \/ PatchLocalStarted(w)
    \/ RunAllStarted(w)
    \/ RunAllGenerated(w, FALSE)
    \/ RunAllStored(w)

C17_RetryCarriesFeedback ==
    [][ ( /\ _active_step # NoStep
          /\ diffs[_active_step] # NoDiff
          /\ reviews[_active_step] # NoReview
          /\ patch_local ) =>
            \A v \in workers' \ workers :
                /\ v.diff = diffs[_active_step]
                /\ v.review = reviews[_active_step] ]_vars

\* the pending step with the smallest id, NoStep when no step is pending
NextPendingById(p) ==
    IF p.exists /\ (\E i \in 1..Len(p.steps) : p.steps[i].status = "pending")
    THEN MinOf({p.steps[i].id : i \in {k \in 1..Len(p.steps) :
                                          p.steps[k].status = "pending"}})
    ELSE NoStep

\* C18: after an approve that went through, the active-step pointer is on the
\* pending step with the smallest id, and is empty when no step is pending.
C18_PointerAdvances ==
    [][ (apply_patch_route /\ flash'.error = "") =>
            active_step_id' = NextPendingById(plan') ]_vars

\* the ids of the steps of plan p that are approved and have an id below sid
ApprovedBelow(p, sid) ==
    IF ~p.exists THEN {}
    ELSE {p.steps[i].id : i \in {k \in 1..Len(p.steps) :
                                    /\ p.steps[k].id < sid
                                    /\ p.steps[k].status = "approved"}}

\* C19: in batch mode, when the thread goes on to generate the draft of
\* step k, its prior diffs are those of the steps with an id below k that are
\* approved at that moment, the steps approved earlier in the same batch
\* included, and of no other step.
C19_BatchPriorDiffs ==
    [][ \A w \in workers : (w.kind = "run_all" /\ BuildsPriorDiffs(w)) =>
            \A v \in workers' \ workers :
                {pr[1] : pr \in v.prior} = ApprovedBelow(plan', Head(v.todo)) ]_vars

\* the run-all thread w leaves the plan as it is and goes on with the pending
\* steps that remain
LeftPendingAndOn(w) ==
    /\ plan' = plan
    /\ Tail(w.todo) # <<>> =>
           \E v \in workers' : v.tid = w.tid /\ v.todo = Tail(w.todo)

\* C20: in batch mode a step is approved only if its generation and its
\* review completed without error: when the generation fails, or the review
\* comes back as an error or raises, the step is left as it is and the batch
\* goes on with the remaining pending steps.
C20_BatchApprovesOnlyOnSuccess ==
    [][ \A w \in workers :
          /\ (w.kind = "run_all" /\ RunAllGenerated(w, FALSE)) => LeftPendingAndOn(w)
          /\ (w.kind = "run_all" /\ RunAllReviewed(w, "raised")) => plan' = plan
          /\ (w.kind = "run_all" /\ w.got # "reviewed" /\ RunAllStored(w)) =>
                 LeftPendingAndOn(w) ]_vars

(***************************************************************************)
(* Properties of the batch run and of the final assembly                   *)
(***************************************************************************)
\* the run-all thread w goes through its loop for the last time in this step
\* and ends after the final assembly, having approved cnt steps
BatchEnds(w, cnt) ==
    /\ w.kind = "run_all"
    /\ Tail(w.todo) = <<>>
    /\ \/ cnt = w.count /\ RunAllGenerated(w, FALSE)
       \/ cnt = w.count + 1 /\ RunAllStored(w)

\* how many of the steps the batch of thread w was started for are not
\* approved by it when it has approved cnt
FailedInBatch(w, cnt) == Len(PendingIds(w.snap.steps)) - cnt

\* C21: the failures of the steps of a batch are all reported when the batch
\* ends: when a step of the batch failed, the message left at the end is an
\* error message.
C21_BatchFailuresReported ==
    [][ \A w \in workers : \A cnt \in {w.count, w.count + 1} :
            (BatchEnds(w, cnt) /\ FailedInBatch(w, cnt) > 0) =>
                flash'.error # "" ]_vars

\* no step of plan p is approved
NoneApproved(p) ==
    ~p.exists \/ \A i \in 1..Len(p.steps) : p.steps[i].status # "approved"

\* the outcome of an assembly that had nothing to assemble: an error message,
\* none that announces a final prompt, and the stored final prompt untouched
NothingAssembled ==
    /\ flash'.error # ""
    /\ flash'.info # Ready
    /\ final_prompt' = final_prompt
    /\ finalFile' = finalFile

\* C22: a final assembly with no approved step, requested by the user or run
\* at the end of a batch, reports that there is nothing to assemble, leaves
\* the stored final prompt as it is and announces no final prompt.
C22_NothingToAssemble ==
    [][ /\ (NoneApproved(plan) /\ assemble_prompt) => NothingAssembled
        /\ \A w \in workers : \A cnt \in {w.count, w.count + 1} :
               (BatchEnds(w, cnt) /\ NoneApproved(plan')) => NothingAssembled ]_vars

\* the final assembly runs in this step: on request, or at the end of a batch
Assembles ==
    \/ assemble_prompt
    \/ \E w \in workers : \E cnt \in {w.count, w.count + 1} : BatchEnds(w, cnt)

\* prompt pr holds a diff of every approved step of plan p
HoldsEveryApproved(pr, p) ==
    \A i \in 1..Len(p.steps) :
        p.steps[i].status = "approved" =>
            \E d \in pr.diffs : d[1] = p.steps[i].id

\* C23: the final prompt that an assembly stores holds the diff of every step
\* that is approved at that time, whether the step was approved by the batch
\* or by the user before it.
C23_AssemblyHoldsApproved ==
    [][ (Assembles /\ final_prompt' # final_prompt /\ final_prompt'.made) =>
            HoldsEveryApproved(final_prompt', plan') ]_vars

(***************************************************************************)
(* Properties of apply_patch and its two appliers                          *)
(***************************************************************************)
\* the result of the Python applier on the tree and the patch of the call
PythonOutcome == _apply_patch_python(fsPre, patchText)

SameOutcome(r, q) ==
    /\ r.kind = q.kind
    /\ r.success = q.success
    /\ r.message = q.message
    /\ r.applied = q.applied
    /\ r.errors = q.errors
    /\ r.fs = q.fs

\* the stages of the call, one per git command that was run and one for the
\* Python applier
Ran(stage) == \E k \in 1..Len(result.trail) : result.trail[k] = stage

\* C24: apply_patch never fails on the verdict of git alone: git apply runs
\* only after git apply --check succeeded, and when the check or the apply
\* fails the Python applier runs and its result is the result of the call.
C24_StrictThenFallback ==
    (result # NoResult /\ patchText # NoText) =>
        /\ Ran("apply") => (Len(result.codes) >= 2 /\ result.codes[2]
                               /\ result.trail[1] = "check")
        /\ (\E k \in 2..Len(result.codes) : ~result.codes[k]) =>
               /\ Ran("python")
               /\ SameOutcome(result, PythonOutcome)
        /\ ~result.success => result.kind = "python"

\* git apply failed after its check had passed, and the Python applier made
\* the call succeed
C24_Witness ==
    /\ result # NoResult
    /\ result.trail = <<"check", "apply", "python">>
    /\ result.kind = "python"
    /\ result.success
    /\ fs # fsPre

(***************************************************************************)
(* Properties of the plan file                                             *)
(***************************************************************************)
Statuses == {"pending", "approved", "skipped", "failed"}

\* C25: every status in the stored plan is one of pending, approved, skipped
\* and failed, and the counters of the status bar count every step under the
\* status it has.
C25_StatusesEnumerated ==
    plan.exists =>
        /\ \A i \in 1..Len(plan.steps) : plan.steps[i].status \in Statuses
        /\ \A st \in Statuses : _get_status(plan)[st] = CountStatus(plan, st)

\* C26: every stored plan has unique step ids that ascend in the order of
\* the plan.
C26_IdsAscending ==
    plan.exists =>
        \A i \in 1..(Len(plan.steps) - 1) : plan.steps[i].id < plan.steps[i + 1].id

(***************************************************************************)
(* Properties of the generation of a draft                                 *)
(***************************************************************************)
\* C27: when the generation of a draft ends in an error the stage is given
\* up: the error is reported, the status of the step and the stored drafts,
\* in memory and on disk, are as before, and the background slot is free.
C27_FailedDraftAborts ==
    [][ \A w \in workers :
            PatchLocalGenerated(w, FALSE) =>
                /\ flash'.error # ""
                /\ plan' = plan
                /\ diffs' = diffs /\ refined_diffs' = refined_diffs
                /\ reviews' = reviews
                /\ patchFiles' = patchFiles /\ refinedFiles' = refinedFiles
                /\ w \notin workers'
                /\ ~bg_running' ]_vars

\* a generation has failed for the active step: the step is pending, has no
\* draft, and the slot is free
C27_Witness ==
    /\ flash.error = PatchFailed
    /\ ~bg_running
    /\ workers = {}
    /\ _active_step # NoStep
    /\ StatusOf(plan, _active_step) = "pending"
    /\ diffs[_active_step] = NoDiff
    /\ patchFiles[_active_step] = NoDiff
    /\ produced = 0

\* the diffs that have reached the reviewer or the applier: those kept in
\* memory or as a patch file, and the one a run is reviewing or applying
InUse ==
    {diffs[sid] : sid \in StepIds} \cup {refined_diffs[sid] : sid \in StepIds}
        \cup {patchFiles[sid] : sid \in StepIds}
        \cup {refinedFiles[sid] : sid \in StepIds}
        \cup {w.diff : w \in workers}

\* C28: every diff that reaches the reviewer or the applier has been through
\* the sanitizer first, on each path: local generation, refinement, a diff
\* pasted into the GUI, a diff pasted into the command-line run.
C28_SanitizedBeforeUse ==
    \A d \in InUse : d # NoDiff => d.clean

\* C29: the accesses to the plan file are serialized, so that no status
\* update is lost between the background job and a request: when the job
\* stores the status of its step, every other step keeps the status the plan
\* file had for it.
C29_NoLostUpdate ==
    [][ \A w \in workers :
            (RunAllStored(w) /\ plan.exists) =>
                \A i \in 1..Len(plan.steps) :
                    plan.steps[i].id # Head(w.todo) =>
                        /\ plan'.exists
                        /\ Find(plan'.steps, plan.steps[i].id) # 0
                        /\ StatusOf(plan', plan.steps[i].id) = plan.steps[i].status ]_vars

(***************************************************************************)
(* Properties of the ShutdownManager                                       *)
(***************************************************************************)
\* a call on thread t waits for the lock while a frame of that same thread,
\* which cannot run before the call returns, holds it
WaitsOnItself(t) ==
    /\ Top(t).pc \in {"enter", "callbacks", "procs", "files"}
    /\ _lock = t

\* C30: shutdown() is safe to call any number of times from a route thread,
\* the signal handler and atexit: no cleanup step is carried out twice, and
\* no call is left waiting for ever.
C30_ShutdownOnce ==
    /\ \A i \in 1..Len(cleaned) : \A j \in 1..Len(cleaned) :
           cleaned[i] = cleaned[j] => i = j
    /\ \A t \in ShutThreads : ~WaitsOnItself(t)

(***************************************************************************)
(* Properties of the command-line run                                      *)
(***************************************************************************)
\* the statuses that the command-line run itself writes for a step it is done
\* with for good
CliDone == {"applied", "skipped"}

\* the for loop starts the while loop of its next step
CliEnters(w) ==
    /\ CliStep(w)
    /\ w.todo # <<>>
    /\ \E v \in workers' : v.kind = w.kind /\ v.pc = "paste"

\* the for loop passes over its next step
CliPasses(w) ==
    /\ CliStep(w)
    /\ w.todo # <<>>
    /\ \E v \in workers' : v.kind = w.kind /\ v.pc = "step"

\* C31: run executes exactly the steps whose status is pending, and resume
\* passes over every step that is already done and executes the remaining
\* ones, both in the order of the plan.
C31_RunExecutesPending ==
    [][ \A w \in workers :
            LET status == StatusOf(w.snap, Head(w.todo)) IN
            /\ CliEnters(w) =>
                   IF w.kind = "run" THEN status = "pending"
                   ELSE status \notin CliDone
            /\ CliPasses(w) =>
                   IF w.kind = "run" THEN status # "pending"
                   ELSE status \in CliDone ]_vars

(***************************************************************************)
(* Properties of the status of a step                                      *)
(***************************************************************************)
\* the enumerated transitions: out of pending by approve, skip or a failure,
\* and back to pending (which reset alone does on a plan that is kept)
Terminal == {"approved", "skipped", "failed"}

Enumerated(from, to) ==
    \/ from = to
    \/ from = "pending" /\ to \in Terminal
    \/ from \in Terminal /\ to = "pending"

\* C32: the status of a step of a plan that is kept moves along the
\* enumerated transitions only: from pending to approved or skipped, and from
\* approved, skipped or failed to pending only (which is what reset does).
C32_EnumeratedTransitions ==
    [][ (plan.exists /\ plan'.exists) =>
            \A i \in 1..Len(plan.steps) :
                Find(plan'.steps, plan.steps[i].id) # 0 =>
                    Enumerated(plan.steps[i].status,
                               StatusOf(plan', plan.steps[i].id)) ]_vars

(***************************************************************************)
(* Progress of the background jobs                                         *)
(***************************************************************************)
\* one step of a background thread.  Every call a thread makes returns (the
\* calls of Ollama time out after 120 s) and a started thread is scheduled
\* until its _run has returned.
Background ==
    \/ \E w \in workers, ok \in Answers("planner") : PlanLocalReturned(w, ok)
    \/ \E w \in workers : PatchLocalStarted(w)
    \/ \E w \in workers, ok \in Answers("patcher") : PatchLocalGenerated(w, ok)
    \/ \E w \in workers : PatchLocalReviewed(w)
    \/ \E w \in workers, ok \in Answers("refiner") : RefineReturned(w, ok)
    \/ \E w \in workers : RunAllStarted(w)
    \/ \E w \in workers, ok \in Answers("patcher") : RunAllGenerated(w, ok)
    \/ \E w \in workers, outcome \in Verdicts : RunAllReviewed(w, outcome)
    \/ \E w \in workers : RunAllStored(w)

\* the requests that start a job, those that set up what a job needs, and
\* those that take the plan or a status away while a job runs
NextLive ==
    \/ set_folder
    \/ save_plan_route
    \/ \E form_goal \in {"", "g"} : plan_local(form_goal)
    \/ patch_local
    \/ refine_patch_route
    \/ run_all
    \/ \E step_id \in scope.ids : reset_step(step_id)
    \/ clear_plan
    \/ Background

SpecLive == Init /\ [][NextLive]_vars /\ WF_vars(Background)

\* C33: every background job that has taken the job slot releases it in the
\* end, whether it succeeds, reports an error or raises: bg_running becomes
\* false again and the thread is gone, so that a later request is accepted.
C33_JobSlotReleased == bg_running ~> (~bg_running /\ workers = {})

\* a batch run has gone through its steps and has released the slot
C33_Witness ==
    /\ flash.info = Ready
    /\ ~bg_running
    /\ workers = {}

(***************************************************************************)
(* Properties of the applier: deletions and the cursor                     *)
(***************************************************************************)
\* the file edits of the patch at hand whose target is /dev/null
Deletions ==
    {patchSecs.secs[i] : i \in {k \in 1..Len(patchSecs.secs) :
                                   patchSecs.secs[k].kind = "delete"}}

\* the patch at hand without its deletions
IsKept(e) == e.kind # "delete"

Kept == [patchSecs EXCEPT !.secs = SelectSeq(patchSecs.secs, IsKept)]

\* C34: a file edit whose target is /dev/null is never applied: the file it
\* names is neither written nor removed, no error is recorded for it, and the
\* other file edits of the patch are applied as they are without it.
C34_DeletionNotApplied ==
    (result.kind = "python" /\ Deletions # {}) =>
        /\ \A e \in Deletions :
               /\ (e.path \in DOMAIN fs) = (e.path \in DOMAIN fsPre)
               /\ e.path \in DOMAIN fs => fs[e.path] = fsPre[e.path]
               /\ ~InSeq(e.path, result.errors)
        /\ LET usual == _apply_patch_python(fsPre, PatchFileText(Kept))
           IN  /\ result.fs = usual.fs
               /\ result.applied = usual.applied
               /\ result.errors = usual.errors

(***************************************************************************)
(* Properties of refine                                                    *)
(***************************************************************************)
\* the refine thread of w ends: the refiner has answered with a new diff
\* (ok) or the diff it was given is kept
Refines(w) == \E ok \in BOOLEAN : RefineReturned(w, ok)

\* C35: refine changes only the refined diff of its step: the reviews, the
\* drafts in memory and on disk, the statuses, and the refined diffs of the
\* other steps are the same after it as before, whether the refiner has
\* produced a new diff or the original is kept.
C35_RefineKeepsReview ==
    [][ \A w \in workers :
            Refines(w) =>
                /\ reviews' = reviews
                /\ diffs' = diffs
                /\ patchFiles' = patchFiles
                /\ plan' = plan
                /\ \A sid \in StepIds \ {w.sid} :
                       /\ refined_diffs'[sid] = refined_diffs[sid]
                       /\ refinedFiles'[sid] = refinedFiles[sid] ]_vars

\* a refine has stored a new text for a step that keeps its draft and the
\* review written for that draft
C35_Witness ==
    \E sid \in StepIds :
        /\ ~bg_running
        /\ diffs[sid] # NoDiff
        /\ reviews[sid] = [of |-> diffs[sid].text]
        /\ refined_diffs[sid] # NoDiff
        /\ refined_diffs[sid].text # diffs[sid].text
        /\ refined_diffs[sid].draft = diffs[sid].draft

(***************************************************************************)
(* Properties of the set of steps                                          *)
(***************************************************************************)
\* the step ids of the plan file, none when there is no plan file
PlanIds(p) == IF p.exists THEN {p.steps[i].id : i \in 1..Len(p.steps)} ELSE {}

\* the whole plan is saved anew (pasted, or made by the local planner) or
\* cleared
PlanReplaced ==
    \/ save_plan_route
    \/ \E w \in workers, ok \in BOOLEAN : PlanLocalReturned(w, ok)
    \/ clear_plan

\* C36: the operations of the pipeline never add or remove steps: the set of
\* step ids of the plan file changes only in a step that saves the whole plan
\* anew or clears it; generating, reviewing, refining, approving, skipping,
\* retrying and resetting (also of an id the plan does not hold) leave it as
\* it is.
C36_StepsKept ==
    [][ PlanIds(plan') # PlanIds(plan) => PlanReplaced ]_vars

\* C37: during shutdown the registered callbacks are invoked last registered
\* first, from the last one registered down to the first, and all of them
\* before the subprocesses are terminated and before the temp files are
\* deleted.
C37_CallbacksLifo ==
    \A i \in 1..Len(cleaned) :
        /\ cleaned[i].what = "callback" =>
               /\ cleaned[1].what = "callback"
               /\ cleaned[i].id = cleaned[1].id - (i - 1)
        /\ cleaned[i].what = "subprocesses" =>
               /\ \A j \in 1..Len(cleaned) : (cleaned[j].what = "callback") = (j < i)
               /\ i > 1 => cleaned[i - 1].id = 1
        /\ cleaned[i].what = "temp files" =>
               /\ i > 1
               /\ cleaned[i - 1].what = "subprocesses"
               /\ i = Len(cleaned)

\* a shutdown has called the second callback, then the first, and has then
\* terminated the subprocesses and deleted the temp files
C37_Witness ==
    /\ Len(cleaned) = 4
    /\ cleaned[1] = Done("callback", 2)
    /\ cleaned[2] = Done("callback", 1)
    /\ cleaned[4] = Done("temp files", 0)

\* the call of shutdown() on top of thread t returns in this step
Returns(t) ==
    /\ Top(t).op = "shutdown"
    /\ Len(stacks'[t]) < Len(stacks[t])

\* the cleanup is complete for a shutdown that was triggered with n callbacks
\* registered: each of them has been invoked once, the subprocesses have been
\* terminated and the temp files deleted
CleanedUp(n) ==
    /\ \A id \in 1..n :
           Cardinality({i \in 1..Len(cleaned) : cleaned[i] = Done("callback", id)}) = 1
    /\ \E i \in 1..Len(cleaned) : cleaned[i].what = "subprocesses"
    /\ \E i \in 1..Len(cleaned) : cleaned[i].what = "temp files"

\* the event is set by a call of shutdown() that has completed the cleanup
SetAfterCleanup ==
    (_event' /\ ~_event) =>
        \E t \in ShutThreads : Returns(t) /\ CleanedUp(Top(t).seen)

Labelled(lines) == [i \in 1..Len(lines) |-> <<"#", i>>]

IsLabel(x) == Len(x) = 2 /\ x[1] = "#"

\* the numbers of the original lines among the lines written, in the order
\* in which they were written
Emitted(new_lines) ==
    LET kept == SelectSeq(new_lines, IsLabel)
    IN  [i \in 1..Len(kept) |-> kept[i][2]]

Ascending(q) == \A i \in 1..Len(q) : \A j \in 1..Len(q) : i < j => q[i] < q[j]

\* the hunks of the patch at hand as the applier finds them, when the patch
\* is one file edit
HunksFound == FindHunks(Strip(NormalizeNewlines(patchText)), 1)

\* C39: the cursor of the applier into the original content never moves
\* backwards: whatever the start lines of the hunks of a file edit (from 1
\* on, also overlapping or not ascending), every original line is written at
\* most once and in the original order, or the file is reported as errored
\* and left as it was.
C39_CursorForward ==
    (/\ PyApplied
     /\ Len(Edits) = 1
     /\ Edits[1].kind = "modify"
     /\ \A k \in 1..Len(Edits[1].hunks) : Edits[1].hunks[k].start >= 1) =>
        LET path  == Edits[1].path
            lines == readlines(IF path \in DOMAIN fsPre THEN fsPre[path] ELSE <<>>)
            st    == NewLines(HunksFound, Labelled(lines))
        IN  IF st.err
            THEN InSeq(path, result.errors) /\ fs = fsPre
            ELSE Ascending(Emitted(st.new))

(***************************************************************************)
(* Properties of discarding the plan                                       *)
(***************************************************************************)
\* the session holds no draft, no refined diff and no review
NoArtifacts ==
    \A sid \in StepIds :
        /\ diffs[sid] = NoDiff
        /\ refined_diffs[sid] = NoDiff
        /\ reviews[sid] = NoReview

\* C40: once the plan is discarded, and for as long as there is no plan, the
\* session holds no draft, review or refined diff of its steps, and nothing
\* is written for them into the storage of the project, also when a
\* background job that was started before the discard ends after it.
C40_DiscardIsFinal ==
    [][ ~plan'.exists =>
            /\ NoArtifacts'
            /\ ~plan.exists => /\ patchFiles' = patchFiles
                               /\ refinedFiles' = refinedFiles ]_vars

====
